---- MODULE Spec2Model ----
(***************************************************************************)
(* Severino Poggibonsi: the branch-safety classifier, the deletion         *)
(* handlers (merged-PR cleanup, manual-merge approval workflow, Slack      *)
(* interactions route) and the stale pull request handler, as state        *)
(* machines whose steps are the handlers' await points.                    *)
(***************************************************************************)
EXTENDS Integers, Sequences, FiniteSets, TLC

\* ------------------------------------------------------------------------
\* Bounds of the model
\* ------------------------------------------------------------------------
MaxTokens == 1
MaxResponses == 2
MaxTime == 7
TicksPerDay == 2
MaxHumanComments == 1
MaxStoreTime == 15
MaxLen == 2

\* ------------------------------------------------------------------------
\* Names.  Branch names and patterns are sequences of characters.
\* ------------------------------------------------------------------------
Main == <<"m", "a", "i", "n">>
Dev == <<"d", "e", "v">>
Rel1 == <<"r", "e", "l", "/", "1">>
FeatX == <<"f", "/", "x">>
RelStar == <<"r", "e", "l", "/", "*">>

Branches == {Main, Dev, Rel1, FeatX}
NoBranch == <<>>

Shas == {"abc", "def"}
NoSha == "undefined"
NoRef == "null"
ExpectedShas == Shas \cup {NoSha}

Tokens == 1..MaxTokens
NoToken == 0

Contributors == {"alice", "carol", "dependabot[bot]"}
userMapping == [c \in Contributors |-> IF c = "alice" THEN "U1" ELSE NoRef]
ContributorLists == {<<"carol", "dependabot[bot]", "alice">>}

DefaultProtectedPatterns == <<Main, RelStar>>
DepStar == <<"d", "e", "p", "/", "*">>
DefaultExcludePatterns == <<DepStar>>

\* ------------------------------------------------------------------------
\* State
\* ------------------------------------------------------------------------
VARIABLES
    config,            \* BotConfig of the run
    refs,              \* GitHub: branch -> head sha, or NoRef
    merged,            \* GitHub: branch -> ahead_by = 0 against the default
    defaultBranch,     \* GitHub: the repository's default branch
    pendingDeletions,  \* ManualMergesHandler.pendingDeletions
    slackMessages,     \* deletion requests delivered through Slack
    dmRecords,         \* deduplication store: keys with their expiry time
    task,              \* the running handler invocation(s)
    responses,         \* per token: results of finished handleDeletionResponse
    effects,           \* per token: side effects of handleDeletionResponse
    now,               \* clock, in ticks
    prs,               \* GitHub: pull requests
    stale,             \* the running processPullRequest invocation
    lastRun            \* per PR: summary of the latest finished invocation

delVars == <<refs, merged, defaultBranch, pendingDeletions, slackMessages,
             dmRecords, task, responses, effects>>
staleVars == <<now, prs, stale, lastRun>>
vars == <<config, refs, merged, defaultBranch, pendingDeletions, slackMessages,
          dmRecords, task, responses, effects, now, prs, stale, lastRun>>

\* ------------------------------------------------------------------------
\* Pattern matcher (utils/config.ts)
\* ------------------------------------------------------------------------
Contains(s, ch) == \E i \in 1..Len(s) : s[i] = ch

RECURSIVE RegexTest(_, _)
\* new RegExp('^' + pattern.replace(/\*/g, '.*') + '$').test(name)
RegexTest(p, s) ==
    IF p = <<>> THEN s = <<>>
    ELSE IF Head(p) = "*"
         THEN RegexTest(Tail(p), s) \/ (s # <<>> /\ RegexTest(p, Tail(s)))
         ELSE /\ s # <<>>
              /\ (Head(p) = "." \/ Head(p) = Head(s))
              /\ RegexTest(Tail(p), Tail(s))

PatternMatches(pattern, name) ==
    IF Contains(pattern, "*") THEN RegexTest(pattern, name) ELSE name = pattern

isProtectedBranch(branchName, cfg) ==
    \E i \in 1..Len(cfg.protectedPatterns) :
        PatternMatches(cfg.protectedPatterns[i], branchName)

isExcludedBranch(branchName, cfg) ==
    \E i \in 1..Len(cfg.excludePatterns) :
        PatternMatches(cfg.excludePatterns[i], branchName)

\* slip: every label has to be excluded (every for some)
hasExcludedLabel_Every(labels, cfg) ==
    \A label \in labels : label \in cfg.excludeLabels

hasExcludedLabel(labels, cfg) ==
    \E l \in labels : l \in cfg.excludeLabels

\* ------------------------------------------------------------------------
\* Results
\* ------------------------------------------------------------------------
Result(success, action, error) ==
    [success |-> success, action |-> action, error |-> error, thrown |-> FALSE]
Thrown(error) ==
    [success |-> FALSE, action |-> "", error |-> error, thrown |-> TRUE]
NoResult == [success |-> FALSE, action |-> "none", error |-> "", thrown |-> FALSE]

Safe == [safe |-> TRUE, reason |-> ""]
Unsafe(reason) == [safe |-> FALSE, reason |-> reason]
NotRun == [safe |-> FALSE, reason |-> "not run"]

IdleTask ==
    [op |-> "none", pc |-> "idle", branch |-> NoBranch, expectedSha |-> NoSha,
     token |-> NoToken, approved |-> FALSE, dryRun |-> FALSE,
     contributors |-> <<>>, idx |-> 0, sent |-> 0,
     calls |-> <<>>, safety |-> NotRun, result |-> NoResult]

\* what is remembered of the finished handleDeletionResponse calls of a token
Log(h, res) == [count |-> h.count + 1,
                first |-> IF h.count = 0 THEN res ELSE h.first]

Done(tk, res) == [tk EXCEPT !.pc = "done", !.result = res]
Call(tk, name) == [tk EXCEPT !.calls = Append(@, name)]
Inactive(t) == task[t].pc = "idle"

DeleteError == "Error: Delete API error"
DefaultBranchError == "Error: API error"
AlreadyProcessed == "Request already processed"
NotFound == "Request not found or expired"
NoMessagesError == "No Slack messages could be sent - check user mappings"

\* ------------------------------------------------------------------------
\* Deduplication store keys (services/redis.ts)
\* ------------------------------------------------------------------------
DM_SENT_PREFIX == <<"dm-sent:">>
\* the retention window of 7 days, in ticks of the model
DM_TTL_SECONDS == 7 * TicksPerDay
Owner == <<"o">>
Repo == <<"r">>

getDmKey(owner, repo, branch, contributor) ==
    DM_SENT_PREFIX \o owner \o <<"/">> \o repo \o <<"/">> \o branch
        \o <<"/">> \o <<contributor>>

\* redis SETEX key DM_TTL_SECONDS record, issued at time at
DmRecord(key, at) == [key |-> key, expiresAt |-> at + DM_TTL_SECONDS]

RECURSIVE KeyMatches(_, _)
\* redis KEYS pattern: '*' stands for any run of characters
KeyMatches(p, s) ==
    IF p = <<>> THEN s = <<>>
    ELSE IF Head(p) = "*"
         THEN KeyMatches(Tail(p), s) \/ (s # <<>> /\ KeyMatches(p, Tail(s)))
         ELSE s # <<>> /\ Head(p) = Head(s) /\ KeyMatches(Tail(p), Tail(s))

clearBranchDmRecords(records, owner, repo, branch) ==
    LET pattern == DM_SENT_PREFIX \o owner \o <<"/">> \o repo \o <<"/">>
                       \o branch \o <<"/", "*">>
    IN  {r \in records : ~KeyMatches(pattern, r.key)}

\* getRedis and the command of an operation: what can go wrong in the try block
RedisFailures == {"none", "no_url", "connect", "command"}

\* slip: the client is obtained before the try block
wasDmSent_UrlOutsideTry(records, failure, owner, repo, branch, contributor) ==
    IF failure = "no_url" THEN Thrown("REDIS_URL not configured")
    ELSE IF failure # "none" THEN Result(FALSE, "wasDmSent", failure)
    ELSE Result(\E r \in records :
                    r.key = getDmKey(owner, repo, branch, contributor),
                "wasDmSent", "")

\* the returned boolean is the result's success; a caught error is the warning
wasDmSent(records, failure, owner, repo, branch, contributor) ==
    IF failure # "none" THEN Result(FALSE, "wasDmSent", failure)
    ELSE Result(\E r \in records :
                    r.key = getDmKey(owner, repo, branch, contributor),
                "wasDmSent", "")

markDmSent(records, failure, owner, repo, branch, contributor, at) ==
    LET key == getDmKey(owner, repo, branch, contributor) IN
    IF failure # "none" THEN records
    ELSE {r \in records : r.key # key} \cup {DmRecord(key, at)}

clearDmRecord(records, failure, owner, repo, branch, contributor) ==
    LET key == getDmKey(owner, repo, branch, contributor) IN
    IF failure # "none" THEN records
    ELSE {r \in records : r.key # key}

\* what a store operation without a return value leaves: done, or the warning
StoreVoid(op, failure) ==
    Result(failure = "none", op, IF failure = "none" THEN "" ELSE failure)

\* ------------------------------------------------------------------------
\* Slack button payload (app/api/slack/interactions/route.ts)
\* ------------------------------------------------------------------------
EncodedPayload(branch) == [enc |-> "base64json", branch |-> branch]
RawValue(id) == [enc |-> "raw", branch |-> NoBranch]
decodePayload(value) ==
    IF value.enc = "base64json" THEN value.branch ELSE NoBranch

\* ------------------------------------------------------------------------
\* GitHubService, as seen by the handlers.  fail = the API call errors.
\* ------------------------------------------------------------------------
\* slip: an erroring comparison counts as merged
isBranchMerged_FailOpen(b, fail) == fail \/ (refs[b] # NoRef /\ merged[b])
branchExists(b, fail) == ~fail /\ refs[b] # NoRef
isBranchMerged(b, fail) == ~fail /\ refs[b] # NoRef /\ merged[b]
getBranchSha(b, fail) == IF fail THEN NoRef ELSE refs[b]
deleteBranchOk(b, fail) == ~fail /\ refs[b] # NoRef

Truthy(sha) == sha # NoSha /\ sha # ""

\* ------------------------------------------------------------------------
\* What a handler does once isSafeToDelete has returned s
\* ------------------------------------------------------------------------
SetStatus(k, st) == [pendingDeletions EXCEPT ![k].status = st]

\* slip: the result of the safety check is logged but not acted on
AfterSafetyCleanup_Unchecked(t, tk, s) ==
    /\ task' = [task EXCEPT ![t] =
            IF tk.dryRun THEN Done(tk, Result(TRUE, "branch_cleanup_dry_run", ""))
            ELSE [tk EXCEPT !.pc = "delete"]]
    /\ UNCHANGED <<pendingDeletions, responses, effects>>

\* slip: the dry-run switch is not consulted
AfterSafetyCleanup_DryRunIgnored(t, tk, s) ==
    /\ task' = [task EXCEPT ![t] =
            IF ~s.safe THEN Done(tk, Result(FALSE, "branch_cleanup", s.reason))
            ELSE [tk EXCEPT !.pc = "delete"]]
    /\ UNCHANGED <<pendingDeletions, responses, effects>>

AfterSafetyCleanup(t, tk, s) ==
    /\ task' = [task EXCEPT ![t] =
            IF ~s.safe THEN Done(tk, Result(FALSE, "branch_cleanup", s.reason))
            ELSE IF tk.dryRun THEN Done(tk, Result(TRUE, "branch_cleanup_dry_run", ""))
            ELSE [tk EXCEPT !.pc = "delete"]]
    /\ UNCHANGED <<pendingDeletions, responses, effects>>

\* slip: an unsafe branch is reported but the request stays pending
AfterSafetyRespond_KeepsPending(t, tk, s) ==
    IF ~s.safe
    THEN LET res == Result(FALSE, "branch_deletion", s.reason) IN
         /\ UNCHANGED <<pendingDeletions, effects>>
         /\ responses' = [responses EXCEPT ![tk.token] = Log(@, res)]
         /\ task' = [task EXCEPT ![t] = Done(tk, res)]
    ELSE /\ task' = [task EXCEPT ![t] = [tk EXCEPT !.pc = "delete"]]
         /\ UNCHANGED <<pendingDeletions, responses, effects>>

AfterSafetyRespond(t, tk, s) ==
    IF ~s.safe
    THEN LET res == Result(FALSE, "branch_deletion", s.reason) IN
         /\ pendingDeletions' = SetStatus(tk.token, "rejected")
         /\ effects' = [effects EXCEPT ![tk.token] = Append(@, "reject")]
         /\ responses' = [responses EXCEPT ![tk.token] = Log(@, res)]
         /\ task' = [task EXCEPT ![t] = Done(tk, res)]
    ELSE /\ task' = [task EXCEPT ![t] = [tk EXCEPT !.pc = "delete"]]
         /\ UNCHANGED <<pendingDeletions, responses, effects>>

AfterSafetySlack(t, tk, s) ==
    /\ IF ~s.safe
       THEN \E fetchOk \in BOOLEAN :
              task' = [task EXCEPT ![t] = Done(tk,
                  IF fetchOk THEN Result(TRUE, "slack_unsafe", s.reason)
                  ELSE Result(FALSE, "http_500", "Internal server error"))]
       ELSE task' = [task EXCEPT ![t] = [tk EXCEPT !.pc = "delete"]]
    /\ UNCHANGED <<pendingDeletions, responses, effects>>

AfterSafety(t, tk0, s) ==
    LET tk == [tk0 EXCEPT !.safety = s] IN
    CASE tk.op = "cleanup" -> AfterSafetyCleanup(t, tk, s)
      [] tk.op = "respond" -> AfterSafetyRespond(t, tk, s)
      [] tk.op = "slack" -> AfterSafetySlack(t, tk, s)

\* slip: the pattern check is left to the remote checks
EnterSafety_NoPatternCheck(t, tk) ==
    /\ task' = [task EXCEPT ![t] = [tk EXCEPT !.pc = "exists"]]
    /\ UNCHANGED <<pendingDeletions, responses, effects>>

\* isSafeToDelete up to its first await: the local pattern check
EnterSafety(t, tk) ==
    IF isProtectedBranch(tk.branch, config)
    THEN AfterSafety(t, tk, Unsafe("Branch is protected"))
    ELSE /\ task' = [task EXCEPT ![t] = [tk EXCEPT !.pc = "exists"]]
         /\ UNCHANGED <<pendingDeletions, responses, effects>>


\* ------------------------------------------------------------------------
\* BranchAnalyzer.isSafeToDelete, one step per awaited collaborator call
\* ------------------------------------------------------------------------
SafetyExists(t) ==
    /\ task[t].pc = "exists"
    /\ \E fail \in BOOLEAN :
         LET tk == Call(task[t], "branchExists") IN
         IF ~branchExists(tk.branch, fail)
         THEN AfterSafety(t, tk, Unsafe("Branch no longer exists"))
         ELSE /\ task' = [task EXCEPT ![t] = [tk EXCEPT !.pc = "default"]]
              /\ UNCHANGED <<pendingDeletions, responses, effects>>
    /\ UNCHANGED <<config, refs, merged, defaultBranch, slackMessages, dmRecords>>
    /\ UNCHANGED staleVars

\* getDefaultBranch has no catch: its error leaves isSafeToDelete as an exception
SafetyDefaultThrows(t, tk) ==
    CASE tk.op = "slack" ->
           /\ task' = [task EXCEPT ![t] =
                  Done(tk, Result(FALSE, "http_500", "Internal server error"))]
           /\ UNCHANGED responses
      [] tk.op = "respond" ->
           /\ task' = [task EXCEPT ![t] = Done(tk, Thrown(DefaultBranchError))]
           /\ responses' = [responses EXCEPT ![tk.token] =
                                Log(@, Thrown(DefaultBranchError))]
      [] OTHER ->
           /\ task' = [task EXCEPT ![t] = Done(tk, Thrown(DefaultBranchError))]
           /\ UNCHANGED responses

SafetyDefault(t) ==
    /\ task[t].pc = "default"
    /\ \E fail \in BOOLEAN :
         LET tk == Call(task[t], "getDefaultBranch") IN
         IF fail
         THEN SafetyDefaultThrows(t, tk) /\ UNCHANGED <<pendingDeletions, effects>>
         ELSE IF tk.branch = defaultBranch
         THEN AfterSafety(t, tk, Unsafe("Cannot delete default branch"))
         ELSE /\ task' = [task EXCEPT ![t] = [tk EXCEPT !.pc = "merged"]]
              /\ UNCHANGED <<pendingDeletions, responses, effects>>
    /\ UNCHANGED <<config, refs, merged, defaultBranch, slackMessages, dmRecords>>
    /\ UNCHANGED staleVars

SafetyMerged(t) ==
    /\ task[t].pc = "merged"
    /\ \E fail \in BOOLEAN :
         LET tk == Call(task[t], "isBranchMerged") IN
         IF ~isBranchMerged(tk.branch, fail)
         THEN AfterSafety(t, tk, Unsafe("Branch is not fully merged"))
         ELSE IF Truthy(tk.expectedSha)
         THEN /\ task' = [task EXCEPT ![t] = [tk EXCEPT !.pc = "sha"]]
              /\ UNCHANGED <<pendingDeletions, responses, effects>>
         ELSE AfterSafety(t, tk, Safe)
    /\ UNCHANGED <<config, refs, merged, defaultBranch, slackMessages, dmRecords>>
    /\ UNCHANGED staleVars

SafetySha(t) ==
    /\ task[t].pc = "sha"
    /\ \E fail \in BOOLEAN :
         LET tk == Call(task[t], "getBranchSha") IN
         IF getBranchSha(tk.branch, fail) # tk.expectedSha
         THEN AfterSafety(t, tk, Unsafe("Branch has new commits since last check"))
         ELSE AfterSafety(t, tk, Safe)
    /\ UNCHANGED <<config, refs, merged, defaultBranch, slackMessages, dmRecords>>
    /\ UNCHANGED staleVars

\* ------------------------------------------------------------------------
\* MergedBranchesHandler.cleanupMergedPrBranch
\* ------------------------------------------------------------------------
cleanupMergedPrBranch(t, branchName, expectedSha, dryRun) ==
    /\ Inactive(t)
    /\ EnterSafety(t, [IdleTask EXCEPT !.op = "cleanup", !.branch = branchName,
                          !.expectedSha = expectedSha, !.dryRun = dryRun])
    /\ UNCHANGED <<config, refs, merged, defaultBranch, slackMessages, dmRecords>>
    /\ UNCHANGED staleVars

DeleteRef(b) ==
    /\ refs' = [refs EXCEPT ![b] = NoRef]
    /\ merged' = [merged EXCEPT ![b] = FALSE]

CleanupDelete(t) ==
    /\ task[t].pc = "delete" /\ task[t].op = "cleanup"
    /\ \E fail \in BOOLEAN :
         LET tk == Call(task[t], "deleteBranch") IN
         IF deleteBranchOk(tk.branch, fail)
         THEN /\ DeleteRef(tk.branch)
              /\ task' = [task EXCEPT ![t] = Done(tk, Result(TRUE, "branch_cleanup", ""))]
         ELSE /\ task' = [task EXCEPT ![t] =
                     Done(tk, Result(FALSE, "branch_cleanup", DeleteError))]
              /\ UNCHANGED <<refs, merged>>
    /\ UNCHANGED <<config, defaultBranch, pendingDeletions, slackMessages,
                   dmRecords, responses, effects>>
    /\ UNCHANGED staleVars

\* ------------------------------------------------------------------------
\* ManualMergesHandler.handleDeletionResponse
\* ------------------------------------------------------------------------
\* slip: a rejection is answered but the stored status is not updated
RespondLookup_RejectUnstored(t, tk) ==
    LET k == tk.token
        finish(res) ==
            /\ task' = [task EXCEPT ![t] = Done(tk, res)]
            /\ responses' = [responses EXCEPT ![k] = Log(@, res)]
    IN
    IF k \notin DOMAIN pendingDeletions
    THEN /\ task' = [task EXCEPT ![t] =
                Done(tk, Result(FALSE, "deletion_response", NotFound))]
         /\ UNCHANGED <<pendingDeletions, effects, responses>>
    ELSE IF pendingDeletions[k].status # "pending"
    THEN /\ finish(Result(FALSE, "deletion_response", AlreadyProcessed))
         /\ UNCHANGED <<pendingDeletions, effects>>
    ELSE IF tk.approved
    THEN EnterSafety(t, [tk EXCEPT !.branch = pendingDeletions[k].branchName])
    ELSE /\ UNCHANGED pendingDeletions
         /\ effects' = [effects EXCEPT ![k] = Append(@, "reject")]
         /\ finish(Result(TRUE, "deletion_rejected", ""))

\* slip: a token that is not in the map is answered like a consumed one
RespondLookup_UnknownAsProcessed(t, tk) ==
    LET k == tk.token
        finish(res) ==
            /\ task' = [task EXCEPT ![t] = Done(tk, res)]
            /\ responses' = [responses EXCEPT ![k] = Log(@, res)]
    IN
    IF k \notin DOMAIN pendingDeletions \/ pendingDeletions[k].status # "pending"
    THEN /\ finish(Result(FALSE, "deletion_response", AlreadyProcessed))
         /\ UNCHANGED <<pendingDeletions, effects>>
    ELSE IF tk.approved
    THEN EnterSafety(t, [tk EXCEPT !.branch = pendingDeletions[k].branchName])
    ELSE /\ pendingDeletions' = SetStatus(k, "rejected")
         /\ effects' = [effects EXCEPT ![k] = Append(@, "reject")]
         /\ finish(Result(TRUE, "deletion_rejected", ""))

RespondLookup(t, tk) ==
    LET k == tk.token
        finish(res) ==
            /\ task' = [task EXCEPT ![t] = Done(tk, res)]
            /\ responses' = [responses EXCEPT ![k] = Log(@, res)]
    IN
    IF k \notin DOMAIN pendingDeletions
    THEN /\ task' = [task EXCEPT ![t] =
                Done(tk, Result(FALSE, "deletion_response", NotFound))]
         /\ UNCHANGED <<pendingDeletions, effects, responses>>
    ELSE IF pendingDeletions[k].status # "pending"
    THEN /\ finish(Result(FALSE, "deletion_response", AlreadyProcessed))
         /\ UNCHANGED <<pendingDeletions, effects>>
    ELSE IF tk.approved
    THEN EnterSafety(t, [tk EXCEPT !.branch = pendingDeletions[k].branchName])
    ELSE /\ pendingDeletions' = SetStatus(k, "rejected")
         /\ effects' = [effects EXCEPT ![k] = Append(@, "reject")]
         /\ finish(Result(TRUE, "deletion_rejected", ""))

RECURSIVE TotalResponses(_)
TotalResponses(ks) ==
    IF ks = {} THEN 0
    ELSE LET k == CHOOSE j \in ks : TRUE
         IN responses[k].count + TotalResponses(ks \ {k})

handleDeletionResponse(t, requestId, approved) ==
    /\ Inactive(t)
    /\ TotalResponses(Tokens) < MaxResponses
    /\ RespondLookup(t, [IdleTask EXCEPT !.op = "respond", !.token = requestId,
                            !.approved = approved])
    /\ UNCHANGED <<config, refs, merged, defaultBranch, slackMessages, dmRecords>>
    /\ UNCHANGED staleVars

RespondDeleteOutcome(t, tk, ok) ==
    LET k == tk.token
        res == IF ok THEN Result(TRUE, "branch_deletion", "")
               ELSE Result(FALSE, "branch_deletion", DeleteError)
    IN
    /\ pendingDeletions' = IF ok THEN SetStatus(k, "approved") ELSE pendingDeletions
    /\ responses' = [responses EXCEPT ![k] = Log(@, res)]
    /\ task' = [task EXCEPT ![t] = Done(tk, res)]

RespondDelete(t) ==
    /\ task[t].pc = "delete" /\ task[t].op = "respond"
    /\ \E fail \in BOOLEAN :
         LET tk == Call(task[t], "deleteBranch")
             ok == deleteBranchOk(tk.branch, fail)
         IN
         /\ IF ok THEN DeleteRef(tk.branch) ELSE UNCHANGED <<refs, merged>>
         /\ effects' = [effects EXCEPT ![tk.token] = Append(@, "delete")]
         /\ RespondDeleteOutcome(t, tk, ok)
    /\ UNCHANGED <<config, defaultBranch, slackMessages, dmRecords>>
    /\ UNCHANGED staleVars


\* ------------------------------------------------------------------------
\* ManualMergesHandler.requestDeletionPermission
\* ------------------------------------------------------------------------
\* a token no earlier request carries
uuidv4 == CHOOSE k \in Tokens \ DOMAIN pendingDeletions :
              \A j \in Tokens \ DOMAIN pendingDeletions : k <= j

RequestResult(messagesSent) ==
    IF messagesSent > 0 THEN Result(TRUE, "deletion_request_sent", "")
    ELSE Result(FALSE, "deletion_request_sent", NoMessagesError)

requestDeletionPermission(t, branchName, contributors) ==
    /\ Inactive(t)
    /\ Cardinality(DOMAIN pendingDeletions) < MaxTokens
    /\ LET requestId == uuidv4
       IN
         LET tk == [IdleTask EXCEPT !.op = "request", !.branch = branchName,
                       !.token = requestId, !.contributors = contributors,
                       !.idx = 1]
             pendingDeletion == [id |-> requestId, branchName |-> branchName,
                                 contributors |-> contributors,
                                 status |-> "pending"]
         IN
         /\ pendingDeletions' =
                [k \in DOMAIN pendingDeletions \cup {requestId} |->
                    IF k = requestId THEN pendingDeletion ELSE pendingDeletions[k]]
         /\ task' = [task EXCEPT ![t] =
                IF contributors = <<>> THEN Done(tk, RequestResult(0))
                ELSE [tk EXCEPT !.pc = "send"]]
    /\ UNCHANGED <<config, refs, merged, defaultBranch, slackMessages, dmRecords,
                   responses, effects>>
    /\ UNCHANGED staleVars

\* SlackService.createBranchDeletionMessage: the two buttons of the message
createBranchDeletionMessage(branchName, repoFullName, requestId) ==
    [branch_delete_approve |-> RawValue(requestId),
     branch_delete_reject |-> RawValue(requestId)]

\* SlackService.sendBranchDeletionRequest for the contributor at idx
RequestSend(t) ==
    /\ task[t].pc = "send"
    /\ \E slackOk \in BOOLEAN :
         LET tk == task[t]
             contributor == tk.contributors[tk.idx]
             messageTs == userMapping[contributor] # NoRef /\ slackOk
             messagesSent == IF messageTs THEN tk.sent + 1 ELSE tk.sent
             tk2 == Call([tk EXCEPT !.sent = messagesSent, !.idx = @ + 1],
                         "sendBranchDeletionRequest")
         IN
         /\ slackMessages' =
                IF messageTs
                THEN slackMessages \cup
                       {[to |-> contributor, branch |-> tk.branch,
                         requestId |-> tk.token,
                         buttons |-> createBranchDeletionMessage(
                                         tk.branch, <<Owner, Repo>>, tk.token)]}
                ELSE slackMessages
         /\ task' = [task EXCEPT ![t] =
                IF tk.idx = Len(tk.contributors)
                THEN Done(tk2, RequestResult(messagesSent))
                ELSE tk2]
    /\ UNCHANGED <<config, refs, merged, defaultBranch, pendingDeletions, dmRecords,
                   responses, effects>>
    /\ UNCHANGED staleVars

\* ------------------------------------------------------------------------
\* POST /api/slack/interactions
\* ------------------------------------------------------------------------
SlackReply(tk, fetchOk, action, error) ==
    Done(tk, IF fetchOk THEN Result(TRUE, action, error)
             ELSE Result(FALSE, "http_500", "Internal server error"))

SlackDispatch(t, tk, action_id) ==
    IF action_id = "branch_delete_approve"
    THEN EnterSafety(t, tk)
    ELSE /\ \E fetchOk \in BOOLEAN :
              task' = [task EXCEPT ![t] =
                  IF action_id = "branch_delete_reject"
                  THEN SlackReply(tk, fetchOk, "slack_kept", "")
                  ELSE Done(tk, Result(TRUE, "slack_ok", ""))]
         /\ UNCHANGED <<pendingDeletions, responses, effects>>

SlackInteraction(t, action_id, value) ==
    /\ Inactive(t)
    /\ LET branch == decodePayload(value)
           tk == [IdleTask EXCEPT !.op = "slack", !.branch = branch]
       IN
       IF branch = NoBranch
       THEN /\ \E fetchOk \in BOOLEAN :
                 task' = [task EXCEPT ![t] =
                     SlackReply(tk, fetchOk, "slack_invalid_payload", "")]
            /\ UNCHANGED <<pendingDeletions, responses, effects>>
       ELSE \E authOk \in BOOLEAN :
              IF ~authOk
              THEN /\ \E fetchOk \in BOOLEAN :
                        task' = [task EXCEPT ![t] =
                            SlackReply(tk, fetchOk, "slack_auth_error", "")]
                   /\ UNCHANGED <<pendingDeletions, responses, effects>>
              ELSE SlackDispatch(t, tk, action_id)
    /\ UNCHANGED <<config, refs, merged, defaultBranch, slackMessages, dmRecords>>
    /\ UNCHANGED staleVars

SlackDelete(t) ==
    /\ task[t].pc = "delete" /\ task[t].op = "slack"
    /\ \E fail \in BOOLEAN :
         LET tk == Call(task[t], "deleteBranch") IN
         IF deleteBranchOk(tk.branch, fail)
         THEN /\ DeleteRef(tk.branch)
              /\ task' = [task EXCEPT ![t] = [tk EXCEPT !.pc = "clear"]]
         ELSE /\ \E fetchOk \in BOOLEAN :
                   task' = [task EXCEPT ![t] =
                       SlackReply(tk, fetchOk, "slack_delete_failed", DeleteError)]
              /\ UNCHANGED <<refs, merged>>
    /\ UNCHANGED <<config, defaultBranch, pendingDeletions, slackMessages,
                   dmRecords, responses, effects>>
    /\ UNCHANGED staleVars

SlackClear(t) ==
    /\ task[t].pc = "clear"
    /\ \E redisOk \in BOOLEAN, fetchOk \in BOOLEAN :
         /\ dmRecords' = IF redisOk
                         THEN clearBranchDmRecords(dmRecords, Owner, Repo, task[t].branch)
                         ELSE dmRecords
         /\ task' = [task EXCEPT ![t] =
                SlackReply(task[t], fetchOk, "slack_deleted", "")]
    /\ UNCHANGED <<config, refs, merged, defaultBranch, pendingDeletions,
                   slackMessages, responses, effects>>
    /\ UNCHANGED staleVars

\* ------------------------------------------------------------------------
\* The repository changes under the bot: pushes, merges, deletions
\* ------------------------------------------------------------------------
WorkBranches == {FeatX}
\* the caller has taken every finished invocation's result
Observed == \A t \in DOMAIN task : task[t].pc # "done"

\* the caller takes the result of a finished invocation
Return(t) ==
    /\ task[t].pc = "done"
    /\ task' = [task EXCEPT ![t] = IdleTask]
    /\ UNCHANGED <<config, refs, merged, defaultBranch, pendingDeletions,
                   slackMessages, dmRecords, responses, effects>>
    /\ UNCHANGED staleVars

RequestBranches == {FeatX, Main}

Push(b) ==
    /\ Observed
    /\ refs[b] # NoRef
    /\ \E sha \in Shas \ {refs[b]} : refs' = [refs EXCEPT ![b] = sha]
    /\ merged' = [merged EXCEPT ![b] = FALSE]
    /\ UNCHANGED <<config, defaultBranch, pendingDeletions, slackMessages,
                   dmRecords, task, responses, effects>>
    /\ UNCHANGED staleVars

MergeBranch(b) ==
    /\ Observed
    /\ refs[b] # NoRef /\ ~merged[b]
    /\ merged' = [merged EXCEPT ![b] = TRUE]
    /\ UNCHANGED <<config, refs, defaultBranch, pendingDeletions, slackMessages,
                   dmRecords, task, responses, effects>>
    /\ UNCHANGED staleVars

RemoveBranch(b) ==
    /\ Observed
    /\ refs[b] # NoRef /\ b # defaultBranch
    /\ DeleteRef(b)
    /\ UNCHANGED <<config, defaultBranch, pendingDeletions, slackMessages,
                   dmRecords, task, responses, effects>>
    /\ UNCHANGED staleVars

CreateBranch(b) ==
    /\ Observed
    /\ refs[b] = NoRef
    /\ \E sha \in Shas : refs' = [refs EXCEPT ![b] = sha]
    /\ merged' = [merged EXCEPT ![b] = FALSE]
    /\ UNCHANGED <<config, defaultBranch, pendingDeletions, slackMessages,
                   dmRecords, task, responses, effects>>
    /\ UNCHANGED staleVars


\* ------------------------------------------------------------------------
\* Stale pull requests (handlers/stalePrs.ts)
\* ------------------------------------------------------------------------
WARNING_COMMENT_MARKER == "<!-- severino-stale-warning -->"
CLOSING_COMMENT_MARKER == "<!-- severino-stale-close -->"
Epoch == 0
PrNumbers == {1}
CommentError == "Error: Comment API error"
CloseError == "Error: Close API error"
ActivityError == "Error: Activity API error"
ListError == "Error: List API error"
Null == [success |-> FALSE, action |-> "null", error |-> "", thrown |-> FALSE]

\* A comment body is known by the markers it contains and, for a warning,
\* by the number of days it announces.
MaxOf(a, b) == IF a > b THEN a ELSE b

\* slip: the announced number of days is not clamped
createWarningComment_Unclamped(daysUntilClose, at) ==
    [markers |-> {WARNING_COMMENT_MARKER}, days |-> daysUntilClose,
     user |-> "bot", at |-> at]

createWarningComment(daysUntilClose, at) ==
    [markers |-> {WARNING_COMMENT_MARKER}, days |-> MaxOf(1, daysUntilClose),
     user |-> "bot", at |-> at]
createClosingComment(at) ==
    [markers |-> {CLOSING_COMMENT_MARKER}, days |-> 0, user |-> "bot", at |-> at]
HumanCommentBody(at) ==
    [markers |-> {}, days |-> 0, user |-> "human", at |-> at]

RECURSIVE LatestAt(_)
LatestAt(comments) ==
    IF comments = <<>> THEN Epoch
    ELSE MaxOf(Head(comments).at, LatestAt(Tail(comments)))

\* GitHubService.getPullRequestActivity: the latest of newest comment, latest
\* review and commit date, or the epoch when none is obtainable
getPullRequestActivity(pr) ==
    LET dates == (IF pr.comments # <<>> THEN {LatestAt(pr.comments)} ELSE {})
                 \cup (IF pr.reviewAt > Epoch THEN {pr.reviewAt} ELSE {})
                 \cup (IF pr.commitAt > Epoch THEN {pr.commitAt} ELSE {})
    IN  IF dates = {} THEN Epoch
        ELSE CHOOSE d \in dates : \A e \in dates : e <= d

getDaysSince(date) == (now - date) \div TicksPerDay

\* slip: only the first listed comment is searched for the marker
HasMarker_FirstOnly(comments, marker) ==
    comments # <<>> /\ marker \in comments[1].markers

HasMarker(comments, marker) ==
    \E i \in 1..Len(comments) : marker \in comments[i].markers

\* slip: the close threshold is compared with > for >=
Decide_StrictAge(daysSinceActivity, hasWarningComment, hasClosingComment, cfg) ==
    IF daysSinceActivity > cfg.closeDays /\ hasWarningComment /\ ~hasClosingComment
    THEN "close"
    ELSE IF daysSinceActivity >= cfg.warningDays /\ ~hasWarningComment
    THEN "warn"
    ELSE "none"

\* slip: a pull request past the close threshold is closed, warned or not
Decide_CloseUnwarned(daysSinceActivity, hasWarningComment, hasClosingComment, cfg) ==
    IF daysSinceActivity >= cfg.closeDays /\ ~hasClosingComment
    THEN "close"
    ELSE IF daysSinceActivity >= cfg.warningDays /\ ~hasWarningComment
    THEN "warn"
    ELSE "none"

Decide(daysSinceActivity, hasWarningComment, hasClosingComment, cfg) ==
    IF daysSinceActivity >= cfg.closeDays /\ hasWarningComment /\ ~hasClosingComment
    THEN "close"
    ELSE IF daysSinceActivity >= cfg.warningDays /\ ~hasWarningComment
    THEN "warn"
    ELSE "none"

IdleStale ==
    [pc |-> "idle", pr |-> 0, labels |-> {}, updatedAt |-> Epoch,
     daysSinceActivity |-> 0, hasWarningComment |-> FALSE,
     hasClosingComment |-> FALSE, decision |-> "", calls |-> <<>>,
     posted |-> {}, failed |-> "", ticked |-> FALSE, result |-> NoResult]

StaleDone(st, res) == [st EXCEPT !.pc = "done", !.result = res]
StaleCall(st, name) == [st EXCEPT !.calls = Append(@, name)]

NeverRun == [seen |-> FALSE, quiet |-> FALSE, action |-> "", failed |-> ""]

\* what the next invocation on the same pull request is compared with
Finished(st, n) ==
    [lastRun EXCEPT ![n] = IF st.ticked THEN NeverRun
                           ELSE [seen |-> TRUE, quiet |-> TRUE,
                                 action |-> st.result.action,
                                 failed |-> st.failed]]

processPullRequest(n) ==
    /\ stale.pc = "idle"
    /\ LET st == [IdleStale EXCEPT !.pr = n, !.labels = prs[n].labels,
                     !.updatedAt = prs[n].updatedAt]
       IN IF hasExcludedLabel(st.labels, config)
          THEN stale' = StaleDone(st, Null)
          ELSE stale' = [st EXCEPT !.pc = "activity"]
    /\ UNCHANGED <<config, now, prs, lastRun>>
    /\ UNCHANGED delVars

StaleActivity ==
    /\ stale.pc = "activity"
    /\ \E fail \in BOOLEAN :
         LET st == StaleCall(stale, "getPullRequestActivity")
             lastActivity == getPullRequestActivity(prs[st.pr])
             effectiveActivityDate ==
                 IF lastActivity > Epoch THEN lastActivity ELSE st.updatedAt
         IN stale' = IF fail
                     THEN StaleDone([st EXCEPT !.failed = "getPullRequestActivity"],
                                    Thrown(ActivityError))
                     ELSE [st EXCEPT !.pc = "comments",
                              !.daysSinceActivity = getDaysSince(effectiveActivityDate)]
    /\ UNCHANGED <<config, now, prs, lastRun>>
    /\ UNCHANGED delVars

StaleComments ==
    /\ stale.pc = "comments"
    /\ \E fail \in BOOLEAN :
         LET st == StaleCall(stale, "listComments")
             comments == prs[st.pr].comments
             hasWarningComment == HasMarker(comments, WARNING_COMMENT_MARKER)
             hasClosingComment == HasMarker(comments, CLOSING_COMMENT_MARKER)
             decision == Decide(st.daysSinceActivity, hasWarningComment,
                                hasClosingComment, config)
             st2 == [st EXCEPT !.hasWarningComment = hasWarningComment,
                               !.hasClosingComment = hasClosingComment,
                               !.decision = decision]
         IN stale' = IF fail
                     THEN StaleDone([st EXCEPT !.failed = "listComments"],
                                    Thrown(ListError))
                     ELSE IF decision = "close" THEN [st2 EXCEPT !.pc = "closeComment"]
                     ELSE IF decision = "warn" THEN [st2 EXCEPT !.pc = "warnComment"]
                     ELSE StaleDone(st2, Null)
    /\ UNCHANGED <<config, now, prs, lastRun>>
    /\ UNCHANGED delVars

AddComment(n, c) == [prs EXCEPT ![n].comments = Append(@, c)]

warnStalePr ==
    /\ stale.pc = "warnComment"
    /\ \E fail \in BOOLEAN :
         LET st == StaleCall(stale, "createComment")
             daysUntilClose == config.closeDays - st.daysSinceActivity
         IN IF fail
            THEN /\ stale' = StaleDone([st EXCEPT !.failed = "createComment"],
                                       Result(FALSE, "stale_warning", CommentError))
                 /\ UNCHANGED prs
            ELSE /\ prs' = AddComment(st.pr, createWarningComment(daysUntilClose, now))
                 /\ stale' = StaleDone([st EXCEPT !.posted = {WARNING_COMMENT_MARKER}],
                                       Result(TRUE, "stale_warning", ""))
    /\ UNCHANGED <<config, now, lastRun>>
    /\ UNCHANGED delVars

\* slip: the comment and the close each in a try of their own
closeStalePrComment_OwnTry ==
    /\ stale.pc = "closeComment"
    /\ \E fail \in BOOLEAN :
         LET st == StaleCall(stale, "createComment") IN
         IF fail
         THEN /\ stale' = [st EXCEPT !.pc = "close"]
              /\ UNCHANGED prs
         ELSE /\ prs' = AddComment(st.pr, createClosingComment(now))
              /\ stale' = [st EXCEPT !.pc = "close",
                                      !.posted = {CLOSING_COMMENT_MARKER}]
    /\ UNCHANGED <<config, now, lastRun>>
    /\ UNCHANGED delVars

closeStalePrComment ==
    /\ stale.pc = "closeComment"
    /\ \E fail \in BOOLEAN :
         LET st == StaleCall(stale, "createComment") IN
         IF fail
         THEN /\ stale' = StaleDone([st EXCEPT !.failed = "createComment"],
                                    Result(FALSE, "stale_close", CommentError))
              /\ UNCHANGED prs
         ELSE /\ prs' = AddComment(st.pr, createClosingComment(now))
              /\ stale' = [st EXCEPT !.pc = "close",
                                      !.posted = {CLOSING_COMMENT_MARKER}]
    /\ UNCHANGED <<config, now, lastRun>>
    /\ UNCHANGED delVars

closeStalePrClose ==
    /\ stale.pc = "close"
    /\ \E fail \in BOOLEAN :
         LET st == StaleCall(stale, "closePullRequest") IN
         IF fail
         THEN /\ stale' = StaleDone([st EXCEPT !.failed = "closePullRequest"],
                                    Result(FALSE, "stale_close", CloseError))
              /\ UNCHANGED prs
         ELSE /\ prs' = [prs EXCEPT ![st.pr].open = FALSE]
              /\ stale' = StaleDone(st, Result(TRUE, "stale_close", ""))
    /\ UNCHANGED <<config, now, lastRun>>
    /\ UNCHANGED delVars

\* the caller takes the result
StaleReturn ==
    /\ stale.pc = "done"
    /\ lastRun' = Finished(stale, stale.pr)
    /\ stale' = IdleStale
    /\ UNCHANGED <<config, now, prs>>
    /\ UNCHANGED delVars

\* --- the world around the pull request ---
\* once anything changes, the last invocation is no longer "the call before"
Disturbed == [n \in PrNumbers |-> NeverRun]

Tick ==
    /\ stale.pc # "done" /\ now < MaxTime
    \* the clock is followed while some pull request is still open
    /\ \E n \in PrNumbers : prs[n].open
    /\ now' = now + 1
    /\ lastRun' = Disturbed
    \* the age of a running invocation was read from the clock before this tick
    /\ stale' = IF stale.pc \in {"idle", "activity"} THEN stale
                ELSE [stale EXCEPT !.ticked = TRUE]
    /\ UNCHANGED <<config, prs>>
    /\ UNCHANGED delVars

HumanCount(comments) ==
    Cardinality({i \in 1..Len(comments) : comments[i].user = "human"})

HumanComment(n) ==
    /\ stale.pc # "done"
    /\ HumanCount(prs[n].comments) < MaxHumanComments
    /\ prs' = AddComment(n, HumanCommentBody(now))
    /\ lastRun' = Disturbed
    /\ UNCHANGED <<config, now, stale>>
    /\ UNCHANGED delVars

HumanPush(n) ==
    /\ stale.pc # "done"
    /\ prs[n].commitAt # now
    /\ prs' = [prs EXCEPT ![n].commitAt = now]
    /\ lastRun' = Disturbed
    /\ UNCHANGED <<config, now, stale>>
    /\ UNCHANGED delVars



\* a maintainer pins the pull request
HumanLabel(n) ==
    /\ stale.pc # "done"
    /\ "pinned" \notin prs[n].labels
    /\ prs' = [prs EXCEPT ![n].labels = @ \cup {"pinned"}]
    /\ lastRun' = Disturbed
    /\ UNCHANGED <<config, now, stale>>
    /\ UNCHANGED delVars

\* ------------------------------------------------------------------------
\* Initial states
\* ------------------------------------------------------------------------
Tasks == {1}

DefaultConfig ==
    [protectedPatterns |-> DefaultProtectedPatterns,
     excludePatterns |-> DefaultExcludePatterns,
     warningDays |-> 1, closeDays |-> 2, excludeLabels |-> {"pinned"}]

InitDeletion ==
    /\ refs = [b \in Branches |-> "abc"]
    /\ merged = [b \in Branches |-> b = Rel1]
    /\ defaultBranch \in {Main, Dev}
    /\ pendingDeletions = <<>>
    /\ slackMessages = {}
    /\ dmRecords = {DmRecord(getDmKey(Owner, Repo, FeatX, c), 1) :
                        c \in {"alice", "carol"}}
    /\ task = [t \in Tasks |-> IdleTask]
    /\ responses = [k \in Tokens |-> [count |-> 0, first |-> NoResult]]
    /\ effects = [k \in Tokens |-> <<>>]

NewPr(labels, reviewAt, commitAt) ==
    [labels |-> labels, updatedAt |-> 1, open |-> TRUE, comments |-> <<>>,
     reviewAt |-> reviewAt, commitAt |-> commitAt]

InitStaleIdle ==
    /\ now = 1
    /\ prs = [n \in PrNumbers |-> NewPr({}, Epoch, 1)]
    /\ stale = IdleStale
    /\ lastRun = [n \in PrNumbers |-> NeverRun]

\* stalePrs.warningDays and closeDays come from the repository's own file and
\* are not validated: the defaults scaled to days of the model, and an
\* override that warns at once
StaleConfigs ==
    {[DefaultConfig EXCEPT !.warningDays = d[1], !.closeDays = d[2]] :
        d \in {<<1, 2>>, <<0, 1>>}}

InitStale ==
    /\ config \in StaleConfigs
    /\ now = 1
    /\ prs \in [PrNumbers -> {NewPr(l, r, c) : l \in {{"bug"}, {"bug", "pinned"}},
                                              r \in {Epoch, 1}, c \in {Epoch, 1}}]
    /\ stale = IdleStale
    /\ lastRun = [n \in PrNumbers |-> NeverRun]
    /\ refs = [b \in Branches |-> "abc"]
    /\ merged = [b \in Branches |-> b = Rel1]
    /\ defaultBranch = Main
    /\ pendingDeletions = <<>>
    /\ slackMessages = {}
    /\ dmRecords = {}
    /\ task = [t \in Tasks |-> IdleTask]
    /\ responses = [k \in Tokens |-> [count |-> 0, first |-> NoResult]]
    /\ effects = [k \in Tokens |-> <<>>]

NextStale ==
    \/ \E n \in PrNumbers : processPullRequest(n)
    \/ StaleActivity
    \/ StaleComments
    \/ warnStalePr
    \/ closeStalePrComment
    \/ closeStalePrClose
    \/ StaleReturn
    \/ Tick
    \/ \E n \in PrNumbers : HumanComment(n)
    \/ \E n \in PrNumbers : HumanPush(n)
    \/ \E n \in PrNumbers : HumanLabel(n)

SpecStale == InitStale /\ [][NextStale]_vars

Init ==
    /\ config = DefaultConfig
    /\ InitDeletion
    /\ InitStaleIdle

Next ==
    \/ \E t \in Tasks, b \in Branches, sha \in ExpectedShas \ {NoSha}, dry \in BOOLEAN :
          cleanupMergedPrBranch(t, b, sha, dry)
    \/ \E t \in Tasks : SafetyExists(t)
    \/ \E t \in Tasks : SafetyDefault(t)
    \/ \E t \in Tasks : SafetyMerged(t)
    \/ \E t \in Tasks : SafetySha(t)
    \/ \E t \in Tasks : CleanupDelete(t)
    \/ \E t \in Tasks, b \in RequestBranches, cs \in ContributorLists :
          requestDeletionPermission(t, b, cs)
    \/ \E t \in Tasks : RequestSend(t)
    \/ \E t \in Tasks, k \in Tokens, approved \in BOOLEAN :
          handleDeletionResponse(t, k, approved)
    \/ \E t \in Tasks : RespondDelete(t)
    \/ \E t \in Tasks, a \in {"branch_delete_approve", "branch_delete_reject"},
          v \in {EncodedPayload(b) : b \in Branches} \cup {RawValue(1)} :
          SlackInteraction(t, a, v)
    \/ \E t \in Tasks : SlackDelete(t)
    \/ \E t \in Tasks : SlackClear(t)
    \/ \E t \in Tasks : Return(t)
    \/ \E b \in WorkBranches : Push(b)
    \/ \E b \in WorkBranches : MergeBranch(b)
    \/ \E b \in WorkBranches : RemoveBranch(b)
    \/ \E b \in WorkBranches : CreateBranch(b)

Spec == Init /\ [][Next]_vars

\* ------------------------------------------------------------------------
\* The deduplication store under its callers (services/redis.ts)
\* ------------------------------------------------------------------------
F == <<"f">>
StoreKeys == {<<F, "alice">>, <<FeatX, "alice">>, <<FeatX, "carol">>}
StoreBranches == {F, FeatX}
StoreOps == {"wasDmSent", "markDmSent", "clearDmRecord", "clearBranchDmRecords"}

StoreTask(op, branch, contributors) ==
    [IdleTask EXCEPT !.op = op, !.branch = branch, !.contributors = contributors]

CallWasDmSent(t, branch, contributor) ==
    /\ Inactive(t)
    /\ \E failure \in RedisFailures :
         task' = [task EXCEPT ![t] =
             Done(StoreTask("wasDmSent", branch, <<contributor>>),
                  wasDmSent(dmRecords, failure, Owner, Repo, branch, contributor))]
    /\ UNCHANGED <<config, refs, merged, defaultBranch, pendingDeletions,
                   slackMessages, dmRecords, responses, effects>>
    /\ UNCHANGED staleVars

CallMarkDmSent(t, branch, contributor) ==
    /\ Inactive(t)
    /\ \E failure \in RedisFailures :
         /\ dmRecords' = markDmSent(dmRecords, failure, Owner, Repo, branch,
                                    contributor, now)
         /\ task' = [task EXCEPT ![t] =
                Done(StoreTask("markDmSent", branch, <<contributor>>),
                     StoreVoid("markDmSent", failure))]
    /\ UNCHANGED <<config, refs, merged, defaultBranch, pendingDeletions,
                   slackMessages, responses, effects>>
    /\ UNCHANGED staleVars

CallClearDmRecord(t, branch, contributor) ==
    /\ Inactive(t)
    /\ \E failure \in RedisFailures :
         /\ dmRecords' = clearDmRecord(dmRecords, failure, Owner, Repo, branch,
                                       contributor)
         /\ task' = [task EXCEPT ![t] =
                Done(StoreTask("clearDmRecord", branch, <<contributor>>),
                     StoreVoid("clearDmRecord", failure))]
    /\ UNCHANGED <<config, refs, merged, defaultBranch, pendingDeletions,
                   slackMessages, responses, effects>>
    /\ UNCHANGED staleVars

CallClearBranchDmRecords(t, branch) ==
    /\ Inactive(t)
    /\ \E failure \in RedisFailures :
         /\ dmRecords' = IF failure = "none"
                         THEN clearBranchDmRecords(dmRecords, Owner, Repo, branch)
                         ELSE dmRecords
         /\ task' = [task EXCEPT ![t] =
                Done(StoreTask("clearBranchDmRecords", branch, <<>>),
                     StoreVoid("clearBranchDmRecords", failure))]
    /\ UNCHANGED <<config, refs, merged, defaultBranch, pendingDeletions,
                   slackMessages, responses, effects>>
    /\ UNCHANGED staleVars

\* a day passes between two calls; redis drops the keys whose TTL has run out
DayPasses ==
    /\ \A t \in Tasks : Inactive(t)
    /\ now + TicksPerDay <= MaxStoreTime
    /\ now' = now + TicksPerDay
    /\ dmRecords' = {r \in dmRecords : r.expiresAt > now'}
    /\ UNCHANGED <<config, refs, merged, defaultBranch, pendingDeletions,
                   slackMessages, task, responses, effects, prs, stale, lastRun>>

InitStore == Init

NextStore ==
    \/ \E t \in Tasks, k \in StoreKeys : CallWasDmSent(t, k[1], k[2])
    \/ \E t \in Tasks, k \in StoreKeys : CallMarkDmSent(t, k[1], k[2])
    \/ \E t \in Tasks, k \in StoreKeys : CallClearDmRecord(t, k[1], k[2])
    \/ \E t \in Tasks, b \in StoreBranches : CallClearBranchDmRecords(t, b)
    \/ DayPasses
    \/ \E t \in Tasks, cs \in ContributorLists :
          requestDeletionPermission(t, FeatX, cs)
    \/ \E t \in Tasks : RequestSend(t)
    \/ \E t \in Tasks, sha \in ExpectedShas :
          cleanupMergedPrBranch(t, FeatX, sha, TRUE)
    \/ \E t \in Tasks : SafetyExists(t)
    \/ \E t \in Tasks : SafetyDefault(t)
    \/ \E t \in Tasks : SafetyMerged(t)
    \/ \E t \in Tasks : SafetySha(t)
    \/ \E t \in Tasks : Return(t)
    \/ MergeBranch(FeatX)

SpecStore == InitStore /\ [][NextStore]_vars

\* ------------------------------------------------------------------------
\* The pattern matcher applied to pattern lists and branch names
\* ------------------------------------------------------------------------
Strings(alphabet, n) == UNION {[1..k -> alphabet] : k \in 0..n}
BranchNames == Strings({"a", "b", "."}, MaxLen)
Patterns == Strings({"a", ".", "*"}, MaxLen)
PatternLists == {<<>>} \cup {<<p>> : p \in Patterns}
                    \cup {<<Main, p>> : p \in Patterns}

MatchConfigs ==
    {[DefaultConfig EXCEPT !.protectedPatterns = ps[1], !.excludePatterns = ps[2]] :
        ps \in PatternLists \X PatternLists}

CallIsProtectedBranch(t, branchName) ==
    /\ Inactive(t)
    /\ task' = [task EXCEPT ![t] =
           Done([IdleTask EXCEPT !.op = "isProtectedBranch", !.branch = branchName],
                Result(isProtectedBranch(branchName, config),
                       "isProtectedBranch", ""))]
    /\ UNCHANGED <<config, refs, merged, defaultBranch, pendingDeletions,
                   slackMessages, dmRecords, responses, effects>>
    /\ UNCHANGED staleVars

CallIsExcludedBranch(t, branchName) ==
    /\ Inactive(t)
    /\ task' = [task EXCEPT ![t] =
           Done([IdleTask EXCEPT !.op = "isExcludedBranch", !.branch = branchName],
                Result(isExcludedBranch(branchName, config),
                       "isExcludedBranch", ""))]
    /\ UNCHANGED <<config, refs, merged, defaultBranch, pendingDeletions,
                   slackMessages, dmRecords, responses, effects>>
    /\ UNCHANGED staleVars

InitMatch ==
    /\ config \in MatchConfigs
    /\ InitDeletion
    /\ defaultBranch = Main
    /\ InitStaleIdle

NextMatch ==
    \/ \E t \in Tasks, b \in BranchNames : CallIsProtectedBranch(t, b)
    \/ \E t \in Tasks, b \in BranchNames : CallIsExcludedBranch(t, b)
    \/ \E t \in Tasks : Return(t)

SpecMatch == InitMatch /\ [][NextMatch]_vars


\* ------------------------------------------------------------------------
\* Repository scan (cli/checkManualMerges.ts processRepository): the open
\* pull requests are listed once and handed to processPullRequest in turn
\* ------------------------------------------------------------------------
ScanPrs == {1, 2}
ScanOrder == <<1, 2>>
ListPrsError == "Error: pull request list API error"

ScanTask(list) ==
    [op |-> "processRepository", pc |-> "await", list |-> list, idx |-> 1,
     listed |-> TRUE, results |-> <<>>, logged |-> "", result |-> NoResult]

listOpenPullRequests ==
    LET IsOpen(n) == prs[n].open IN SelectSeq(ScanOrder, IsOpen)

\* entry: a failing listing is caught by the one try block and yields []
processRepository(t) ==
    /\ Inactive(t)
    /\ stale.pc = "idle"
    /\ \E fail \in BOOLEAN :
         LET list == listOpenPullRequests
         IN task' = [task EXCEPT ![t] =
                IF fail
                THEN [ScanTask(<<>>) EXCEPT !.pc = "done", !.listed = FALSE,
                                           !.logged = ListPrsError]
                ELSE IF list = <<>>
                     THEN [ScanTask(list) EXCEPT !.pc = "done"]
                     ELSE ScanTask(list)]
    /\ UNCHANGED <<config, refs, merged, defaultBranch, pendingDeletions,
                   slackMessages, dmRecords, responses, effects>>
    /\ UNCHANGED staleVars

\* loop body, first half: await processPullRequest(pr)
ScanProcess(t) ==
    /\ task[t].op = "processRepository"
    /\ task[t].pc = "await"
    /\ processPullRequest(task[t].list[task[t].idx])

\* loop body, second half: a result is pushed; an exception leaves the loop
\* for the catch that surrounds it
ScanCollect(t) ==
    /\ task[t].op = "processRepository"
    /\ task[t].pc = "await"
    /\ stale.pc = "done"
    /\ LET tk == task[t]
           res == stale.result
       IN task' = [task EXCEPT ![t] =
              IF res.thrown
              THEN [tk EXCEPT !.pc = "done", !.logged = res.error]
              ELSE [tk EXCEPT !.results = IF res = Null THEN @ ELSE Append(@, res),
                              !.idx = @ + 1,
                              !.pc = IF tk.idx = Len(tk.list) THEN "done" ELSE "await"]]
    /\ stale' = IdleStale
    /\ UNCHANGED <<config, refs, merged, defaultBranch, pendingDeletions,
                   slackMessages, dmRecords, responses, effects>>
    /\ UNCHANGED <<now, prs, lastRun>>

\* an open pull request, possibly already carrying the bot's warning
ScanPr(labels, commitAt, warned) ==
    [NewPr(labels, Epoch, commitAt) EXCEPT
        !.comments = IF warned THEN <<createWarningComment(1, 1)>> ELSE <<>>]

InitScan ==
    /\ config \in StaleConfigs
    /\ now = 3
    /\ prs \in [ScanPrs -> {ScanPr(l, c, w) : l \in {{"bug"}, {"bug", "pinned"}},
                                              c \in {1, 3}, w \in BOOLEAN}]
    /\ stale = IdleStale
    /\ lastRun = [n \in PrNumbers |-> NeverRun]
    /\ InitDeletion

NextScan ==
    \/ \E t \in Tasks : processRepository(t)
    \/ \E t \in Tasks : ScanProcess(t)
    \/ StaleActivity
    \/ StaleComments
    \/ warnStalePr
    \/ closeStalePrComment
    \/ closeStalePrClose
    \/ \E t \in Tasks : ScanCollect(t)
    \/ \E t \in Tasks : Return(t)

SpecScan == InitScan /\ [][NextScan]_vars


\* ------------------------------------------------------------------------
\* BranchAnalyzer.analyzeBranch (services/branchAnalyzer.ts)
\* ------------------------------------------------------------------------
NoPr == 0
NoAnalysis == [sha |-> NoRef, protected |-> FALSE, isMerged |-> FALSE,
               hasAssociatedPr |-> FALSE, associatedPrNumber |-> NoPr,
               contributors |-> {}, lastCommitDate |-> Epoch]

AnalyzeTask(b) ==
    [op |-> "analyze", pc |-> "default", branch |-> b, defaultBranch |-> NoBranch,
     calls |-> <<>>, failed |-> "", branchSha |-> NoSha,
     returned |-> "", analysis |-> NoAnalysis]

AnalyzeDone(tk, returned) == [tk EXCEPT !.pc = "done", !.returned = returned]

\* the last commits of a branch, newest first
getBranchCommits(b, fail) ==
    IF fail \/ refs[b] = NoRef THEN <<>>
    ELSE IF b = FeatX
         THEN <<[author |-> "alice", date |-> 2], [author |-> "carol", date |-> 1],
                [author |-> "alice", date |-> 1]>>
         ELSE <<[author |-> "alice", date |-> 1]>>

LatestDate(commits) ==
    LET dates == {commits[i].date : i \in 1..Len(commits)} \cup {Epoch}
    IN CHOOSE d \in dates : \A e \in dates : e <= d

\* slip: the analysis is built without looking at the sha
analysisOf_ShaUnchecked(tk, isMerged, prNumber, commits, branchSha) ==
    [AnalyzeDone(tk, "analysis") EXCEPT
        !.branchSha = branchSha,
        !.analysis = [sha |-> branchSha, protected |-> FALSE, isMerged |-> isMerged,
                      hasAssociatedPr |-> prNumber # NoPr,
                      associatedPrNumber |-> prNumber,
                      contributors |-> {commits[i].author : i \in 1..Len(commits)},
                      lastCommitDate |-> LatestDate(commits)]]

\* what analyzeBranch makes of the four gathered values
analysisOf(tk, isMerged, prNumber, commits, branchSha) ==
    IF branchSha = NoRef
    THEN [AnalyzeDone(tk, "null") EXCEPT !.branchSha = branchSha]
    ELSE [AnalyzeDone(tk, "analysis") EXCEPT
            !.branchSha = branchSha,
            !.analysis = [sha |-> branchSha, protected |-> FALSE, isMerged |-> isMerged,
                          hasAssociatedPr |-> prNumber # NoPr,
                          associatedPrNumber |-> prNumber,
                          contributors |-> {commits[i].author : i \in 1..Len(commits)},
                          lastCommitDate |-> LatestDate(commits)]]

\* entry: the pattern check runs before the try block and before any call
analyzeBranch(t, b) ==
    /\ Inactive(t)
    /\ task' = [task EXCEPT ![t] =
           IF isProtectedBranch(b, config) \/ isExcludedBranch(b, config)
           THEN AnalyzeDone(AnalyzeTask(b), "null")
           ELSE AnalyzeTask(b)]
    /\ UNCHANGED <<config, refs, merged, defaultBranch, pendingDeletions,
                   slackMessages, dmRecords, responses, effects>>
    /\ UNCHANGED staleVars

\* await getDefaultBranch: its error is caught by analyzeBranch's try
AnalyzeDefault(t) ==
    /\ task[t].op = "analyze" /\ task[t].pc = "default"
    /\ \E fail \in BOOLEAN :
         LET tk == Call(task[t], "getDefaultBranch")
         IN task' = [task EXCEPT ![t] =
                IF fail THEN AnalyzeDone([tk EXCEPT !.failed = "getDefaultBranch"], "null")
                ELSE IF tk.branch = defaultBranch
                     THEN AnalyzeDone([tk EXCEPT !.defaultBranch = defaultBranch], "null")
                     ELSE [tk EXCEPT !.pc = "gather", !.defaultBranch = defaultBranch]]
    /\ UNCHANGED <<config, refs, merged, defaultBranch, pendingDeletions,
                   slackMessages, dmRecords, responses, effects>>
    /\ UNCHANGED staleVars

\* await Promise.all of the four reads.  isBranchMerged, getBranchCommits and
\* getBranchSha swallow their API errors; findPullRequestForBranch does not
AnalyzeGather(t) ==
    /\ task[t].op = "analyze" /\ task[t].pc = "gather"
    /\ \E failMerged, failPr, failCommits, failSha \in BOOLEAN, prNumber \in {NoPr, 1} :
         LET tk == Call(Call(Call(Call(task[t], "isBranchMerged"),
                        "findPullRequestForBranch"), "getBranchCommits"), "getBranchSha")
         IN task' = [task EXCEPT ![t] =
                IF failPr
                THEN AnalyzeDone([tk EXCEPT !.failed = "findPullRequestForBranch"], "null")
                ELSE analysisOf(tk, isBranchMerged(tk.branch, failMerged), prNumber,
                                getBranchCommits(tk.branch, failCommits),
                                getBranchSha(tk.branch, failSha))]
    /\ UNCHANGED <<config, refs, merged, defaultBranch, pendingDeletions,
                   slackMessages, dmRecords, responses, effects>>
    /\ UNCHANGED staleVars

FeatStar == <<"f", "/", "*">>

InitAnalyze ==
    /\ config \in {DefaultConfig, [DefaultConfig EXCEPT !.excludePatterns = <<FeatStar>>]}
    /\ InitDeletion
    /\ InitStaleIdle

NextAnalyze ==
    \/ \E t \in Tasks, b \in Branches : analyzeBranch(t, b)
    \/ \E t \in Tasks : AnalyzeDefault(t)
    \/ \E t \in Tasks : AnalyzeGather(t)
    \/ \E t \in Tasks : Return(t)
    \/ \E b \in Branches : MergeBranch(b)
    \/ \E b \in Branches : RemoveBranch(b)
    \/ \E b \in Branches : CreateBranch(b)

SpecAnalyze == InitAnalyze /\ [][NextAnalyze]_vars


\* ------------------------------------------------------------------------
\* Configuration loading (utils/config.ts loadConfig, loadRemoteConfig,
\* mergeConfig).  An override is a record holding only the fields its
\* JSON file supplies.
\* ------------------------------------------------------------------------
Has(o, f) == f \in DOMAIN o

\* protectedPatterns || protectedBranches || default (an array is truthy, empty
\* or not); every other field is spread: the override's key wins when present
mergeConfig(defaults, overrides) ==
    [f \in DOMAIN defaults |->
        IF f = "protectedPatterns"
        THEN IF Has(overrides, "protectedPatterns") THEN overrides.protectedPatterns
             ELSE IF Has(overrides, "protectedBranches") THEN overrides.protectedBranches
             ELSE defaults.protectedPatterns
        ELSE IF Has(overrides, f) THEN overrides[f] ELSE defaults[f]]

OverrideFields == {"protectedPatterns", "protectedBranches", "excludePatterns",
                   "warningDays", "closeDays", "excludeLabels"}
OverrideValues ==
    [protectedPatterns : {<<>>, <<Dev>>}, protectedBranches : {<<>>, <<FeatX>>},
     excludePatterns : {<<>>, <<FeatStar>>}, warningDays : {3}, closeDays : {4},
     excludeLabels : {{}, {"wip"}}]
Overrides == {[f \in S |-> v[f]] : S \in SUBSET OverrideFields, v \in OverrideValues}

MergeTask(loader, base, overrides, parsed) ==
    [op |-> loader, pc |-> "done", defaults |-> base, overrides |-> overrides,
     parsed |-> parsed, result |-> NoResult]

\* loadConfig: the file is merged over DEFAULT_CONFIG; an unreadable file
\* leaves the built-in defaults
loadConfig(t, fileConfig) ==
    /\ Inactive(t)
    /\ \E fail \in BOOLEAN :
         /\ config' = IF fail THEN DefaultConfig
                      ELSE mergeConfig(DefaultConfig, fileConfig)
         /\ task' = [task EXCEPT ![t] =
                        MergeTask("loadConfig", DefaultConfig, fileConfig, ~fail)]
    /\ UNCHANGED <<refs, merged, defaultBranch, pendingDeletions,
                   slackMessages, dmRecords, responses, effects>>
    /\ UNCHANGED staleVars

\* loadRemoteConfig: the repository's file is merged over the local config;
\* a missing or unparsable file leaves the local config
loadRemoteConfig(t, remoteConfig) ==
    /\ Inactive(t)
    /\ \E fail \in BOOLEAN :
         /\ config' = IF fail THEN config ELSE mergeConfig(config, remoteConfig)
         /\ task' = [task EXCEPT ![t] =
                        MergeTask("loadRemoteConfig", config, remoteConfig, ~fail)]
    /\ UNCHANGED <<refs, merged, defaultBranch, pendingDeletions,
                   slackMessages, dmRecords, responses, effects>>
    /\ UNCHANGED staleVars

InitMerge ==
    /\ config = DefaultConfig
    /\ InitDeletion
    /\ InitStaleIdle

NextMerge ==
    \/ \E t \in Tasks, o \in Overrides : loadConfig(t, o)
    \/ \E t \in Tasks, o \in Overrides : loadRemoteConfig(t, o)
    \/ \E t \in Tasks : Return(t)

SpecMerge == InitMerge /\ [][NextMerge]_vars


\* ------------------------------------------------------------------------
\* The pull_request.closed webhook (probotApp)
\* ------------------------------------------------------------------------
AuthError == "Error: installation auth failed"
HeadRepos == {"same", "fork", "null"}
ClosedEvents ==
    [merged : BOOLEAN, headRepo : HeadRepos, ref : {FeatX, Main}, sha : Shas]

\* the handler's invocation: the cleanup it awaits runs in the same record
WebhookTask(e) ==
    [IdleTask EXCEPT !.op = "webhook"] @@ [event |-> e, handler |-> "running"]

\* up to the first await: an unmerged pull request and a fork are skipped;
\* a head repository that no longer exists (null) is not a fork
PullRequestClosed(t, e) ==
    /\ Inactive(t)
    /\ task' = [task EXCEPT ![t] =
           IF ~e.merged \/ e.headRepo = "fork"
           THEN [WebhookTask(e) EXCEPT !.pc = "done", !.handler = "returned"]
           ELSE [WebhookTask(e) EXCEPT !.pc = "auth"]]
    /\ UNCHANGED <<config, refs, merged, defaultBranch, pendingDeletions,
                   slackMessages, dmRecords, responses, effects>>
    /\ UNCHANGED staleVars

\* await context.octokit.auth, outside any try, then handleMergedBranchCleanup
\* (dryRun left at its default) up to its first await
WebhookAuth(t) ==
    /\ task[t].op = "webhook" /\ task[t].pc = "auth"
    /\ \E fail \in BOOLEAN :
         LET tk == task[t] IN
         IF fail
         THEN /\ task' = [task EXCEPT ![t] =
                     [Done(tk, Thrown(AuthError)) EXCEPT !.handler = "thrown"]]
              /\ UNCHANGED <<pendingDeletions, responses, effects>>
         ELSE EnterSafety(t, [tk EXCEPT !.op = "cleanup", !.branch = tk.event.ref,
                                        !.expectedSha = tk.event.sha,
                                        !.dryRun = FALSE])
    /\ UNCHANGED <<config, refs, merged, defaultBranch, slackMessages, dmRecords>>
    /\ UNCHANGED staleVars

\* the cleanup has settled: its result is logged, its exception propagates
WebhookFinish(t) ==
    /\ task[t].op = "cleanup" /\ task[t].pc = "done"
    /\ task[t].handler = "running"
    /\ task' = [task EXCEPT ![t].handler =
                   IF task[t].result.thrown THEN "thrown" ELSE "returned"]
    /\ UNCHANGED <<config, refs, merged, defaultBranch, pendingDeletions,
                   slackMessages, dmRecords, responses, effects>>
    /\ UNCHANGED staleVars

WebhookReturn(t) ==
    /\ task[t].op \in {"webhook", "cleanup"}
    /\ task[t].handler # "running"
    /\ Return(t)

InitWebhook ==
    /\ config = DefaultConfig
    /\ InitDeletion
    /\ InitStaleIdle

NextWebhook ==
    \/ \E t \in Tasks, e \in ClosedEvents : PullRequestClosed(t, e)
    \/ \E t \in Tasks : WebhookAuth(t)
    \/ \E t \in Tasks : SafetyExists(t)
    \/ \E t \in Tasks : SafetyDefault(t)
    \/ \E t \in Tasks : SafetyMerged(t)
    \/ \E t \in Tasks : SafetySha(t)
    \/ \E t \in Tasks : CleanupDelete(t)
    \/ \E t \in Tasks : WebhookFinish(t)
    \/ \E t \in Tasks : WebhookReturn(t)
    \/ \E b \in WorkBranches : Push(b)
    \/ \E b \in WorkBranches : MergeBranch(b)

SpecWebhook == InitWebhook /\ [][NextWebhook]_vars


\* ------------------------------------------------------------------------
\* Two approvals of one token in flight together
\* (ManualMergesHandler.handleDeletionResponse called from two requests)
\* ------------------------------------------------------------------------
RaceTasks == {1, 2}

\* an approval arrives while no earlier response has returned yet
RaceRespond(t, k) ==
    /\ \A u \in RaceTasks : task[u].op = "respond" => task[u].pc # "done"
    /\ handleDeletionResponse(t, k, TRUE)

\* the caller of requestDeletionPermission takes its result
RaceReturn(t) ==
    /\ task[t].op = "request"
    /\ Return(t)

InitRace ==
    /\ config = DefaultConfig
    /\ refs = [b \in Branches |-> "abc"]
    /\ merged = [b \in Branches |-> b = Rel1]
    /\ defaultBranch = Main
    /\ pendingDeletions = <<>>
    /\ slackMessages = {}
    /\ dmRecords = {}
    /\ task = [t \in RaceTasks |-> IdleTask]
    /\ responses = [k \in Tokens |-> [count |-> 0, first |-> NoResult]]
    /\ effects = [k \in Tokens |-> <<>>]
    /\ InitStaleIdle

NextRace ==
    \/ \E t \in RaceTasks, b \in RequestBranches, cs \in ContributorLists :
          requestDeletionPermission(t, b, cs)
    \/ \E t \in RaceTasks : RequestSend(t)
    \/ \E t \in RaceTasks : RaceReturn(t)
    \/ \E t \in RaceTasks, k \in Tokens : RaceRespond(t, k)
    \/ \E t \in RaceTasks : SafetyExists(t)
    \/ \E t \in RaceTasks : SafetyDefault(t)
    \/ \E t \in RaceTasks : SafetyMerged(t)
    \/ \E t \in RaceTasks : RespondDelete(t)
    \/ \E b \in WorkBranches : MergeBranch(b)

SpecRace == InitRace /\ [][NextRace]_vars


\* ------------------------------------------------------------------------
\* An approval and a rejection of one token in flight together
\* ------------------------------------------------------------------------
\* a rejection arrives while no earlier response has returned yet; it runs
\* from entry to return without an await
RaceReject(t, k) ==
    /\ \A u \in RaceTasks : task[u].op = "respond" => task[u].pc # "done"
    /\ handleDeletionResponse(t, k, FALSE)

\* the caller of a rejection takes its result while the approval goes on
RejectReturn(t) ==
    /\ task[t].op = "respond" /\ ~task[t].approved
    /\ Return(t)

NextRaceReject ==
    \/ \E t \in RaceTasks, b \in RequestBranches, cs \in ContributorLists :
          requestDeletionPermission(t, b, cs)
    \/ \E t \in RaceTasks : RequestSend(t)
    \/ \E t \in RaceTasks : RaceReturn(t)
    \/ \E t \in RaceTasks, k \in Tokens : RaceRespond(t, k)
    \/ \E t \in RaceTasks, k \in Tokens : RaceReject(t, k)
    \/ \E t \in RaceTasks : RejectReturn(t)
    \/ \E t \in RaceTasks : SafetyExists(t)
    \/ \E t \in RaceTasks : SafetyDefault(t)
    \/ \E t \in RaceTasks : SafetyMerged(t)
    \/ \E t \in RaceTasks : RespondDelete(t)
    \/ \E b \in WorkBranches : MergeBranch(b)

SpecRaceReject == InitRace /\ [][NextRaceReject]_vars

\* ManualMergesHandler.getPendingDeletions: the stored requests still pending
getPendingDeletions ==
    {pendingDeletions[k] : k \in {j \in DOMAIN pendingDeletions :
                                     pendingDeletions[j].status = "pending"}}

\* ------------------------------------------------------------------------
\* BranchAnalyzer.isSafeToDelete called on its own, under API outages:
\* a call named in the outage of the invocation errors
\* ------------------------------------------------------------------------
SafetyApiCalls == {"branchExists", "getDefaultBranch", "isBranchMerged", "getBranchSha"}

CheckTask(b, sha, outage) ==
    [op |-> "isSafeToDelete", pc |-> "exists", branch |-> b, expectedSha |-> sha,
     outage |-> outage, calls |-> <<>>, returned |-> "", reason |-> "",
     result |-> NoResult]

CheckDone(tk, s) ==
    [tk EXCEPT !.pc = "done", !.returned = IF s.safe THEN "safe" ELSE "unsafe",
               !.reason = s.reason]

\* entry: the pattern check, before any call
isSafeToDelete(t, b, sha, outage) ==
    /\ Inactive(t)
    /\ task' = [task EXCEPT ![t] =
           IF isProtectedBranch(b, config)
           THEN CheckDone(CheckTask(b, sha, outage), Unsafe("Branch is protected"))
           ELSE CheckTask(b, sha, outage)]
    /\ UNCHANGED <<config, refs, merged, defaultBranch, pendingDeletions,
                   slackMessages, dmRecords, responses, effects>>
    /\ UNCHANGED staleVars

CheckExists(t) ==
    /\ task[t].op = "isSafeToDelete" /\ task[t].pc = "exists"
    /\ LET tk == Call(task[t], "branchExists")
       IN task' = [task EXCEPT ![t] =
              IF ~branchExists(tk.branch, "branchExists" \in tk.outage)
              THEN CheckDone(tk, Unsafe("Branch no longer exists"))
              ELSE [tk EXCEPT !.pc = "default"]]
    /\ UNCHANGED <<config, refs, merged, defaultBranch, pendingDeletions,
                   slackMessages, dmRecords, responses, effects>>
    /\ UNCHANGED staleVars

\* getDefaultBranch has no catch and isSafeToDelete no try
CheckDefault(t) ==
    /\ task[t].op = "isSafeToDelete" /\ task[t].pc = "default"
    /\ LET tk == Call(task[t], "getDefaultBranch")
       IN task' = [task EXCEPT ![t] =
              IF "getDefaultBranch" \in tk.outage
              THEN [tk EXCEPT !.pc = "done", !.returned = "thrown",
                              !.result = Thrown(DefaultBranchError)]
              ELSE IF tk.branch = defaultBranch
              THEN CheckDone(tk, Unsafe("Cannot delete default branch"))
              ELSE [tk EXCEPT !.pc = "merged"]]
    /\ UNCHANGED <<config, refs, merged, defaultBranch, pendingDeletions,
                   slackMessages, dmRecords, responses, effects>>
    /\ UNCHANGED staleVars

CheckMerged(t) ==
    /\ task[t].op = "isSafeToDelete" /\ task[t].pc = "merged"
    /\ LET tk == Call(task[t], "isBranchMerged")
       IN task' = [task EXCEPT ![t] =
              IF ~isBranchMerged(tk.branch, "isBranchMerged" \in tk.outage)
              THEN CheckDone(tk, Unsafe("Branch is not fully merged"))
              ELSE IF Truthy(tk.expectedSha) THEN [tk EXCEPT !.pc = "sha"]
              ELSE CheckDone(tk, Safe)]
    /\ UNCHANGED <<config, refs, merged, defaultBranch, pendingDeletions,
                   slackMessages, dmRecords, responses, effects>>
    /\ UNCHANGED staleVars

CheckSha(t) ==
    /\ task[t].op = "isSafeToDelete" /\ task[t].pc = "sha"
    /\ LET tk == Call(task[t], "getBranchSha")
       IN task' = [task EXCEPT ![t] =
              IF getBranchSha(tk.branch, "getBranchSha" \in tk.outage) # tk.expectedSha
              THEN CheckDone(tk, Unsafe("Branch has new commits since last check"))
              ELSE CheckDone(tk, Safe)]
    /\ UNCHANGED <<config, refs, merged, defaultBranch, pendingDeletions,
                   slackMessages, dmRecords, responses, effects>>
    /\ UNCHANGED staleVars

NextSafety ==
    \/ \E t \in Tasks, b \in Branches, sha \in ExpectedShas,
          outage \in SUBSET SafetyApiCalls : isSafeToDelete(t, b, sha, outage)
    \/ \E t \in Tasks : CheckExists(t)
    \/ \E t \in Tasks : CheckDefault(t)
    \/ \E t \in Tasks : CheckMerged(t)
    \/ \E t \in Tasks : CheckSha(t)
    \/ \E t \in Tasks : Return(t)
    \/ \E b \in WorkBranches : Push(b)
    \/ \E b \in WorkBranches : MergeBranch(b)
    \/ \E b \in WorkBranches : RemoveBranch(b)
    \/ \E b \in WorkBranches : CreateBranch(b)

SpecSafety == Init /\ [][NextSafety]_vars

\* ------------------------------------------------------------------------
\* Repeated scans of pull requests nobody but the bot touches; every scan
\* step is taken in the end and no collaborator call fails for ever
\* ------------------------------------------------------------------------
InitQuiet ==
    /\ config \in StaleConfigs
    /\ now = 1
    /\ prs \in [PrNumbers -> {ScanPr({"bug"}, 1, w) : w \in BOOLEAN}]
    /\ stale = IdleStale
    /\ lastRun = [n \in PrNumbers |-> NeverRun]
    /\ InitDeletion

NextQuiet ==
    \/ \E n \in PrNumbers : processPullRequest(n)
    \/ StaleActivity
    \/ StaleComments
    \/ warnStalePr
    \/ closeStalePrComment
    \/ closeStalePrClose
    \/ StaleReturn
    \/ Tick

\* the step's collaborator call succeeded
Succeeds(A) == A /\ stale'.failed = ""

FairQuiet ==
    /\ \A n \in PrNumbers : WF_vars(processPullRequest(n))
    /\ WF_vars(StaleReturn)
    /\ SF_vars(Tick)
    /\ SF_vars(Succeeds(StaleActivity))
    /\ SF_vars(Succeeds(StaleComments))
    /\ SF_vars(Succeeds(warnStalePr))
    /\ SF_vars(Succeeds(closeStalePrComment))
    /\ SF_vars(Succeeds(closeStalePrClose))

SpecQuiet == InitQuiet /\ [][NextQuiet]_vars /\ FairQuiet

\* ------------------------------------------------------------------------
\* BranchAnalyzer.findManuallyMergedBranches and findPrMergedBranches
\* (services/branchAnalyzer.ts).  In this specification prs maps a branch to
\* the states of the pull requests opened from it, newest first.
\* ------------------------------------------------------------------------
PullHistories == {<<>>, <<"open">>, <<"closed">>, <<"merged">>,
                  <<"open", "merged">>, <<"closed", "merged">>}
PullBranches == {FeatX, Dev}
BranchOrder == <<Dev, FeatX, Main, Rel1>>

\* repos.listBranches: the branches that exist
listBranches == SelectSeq(BranchOrder, LAMBDA b : refs[b] # NoRef)

\* pulls.list with state 'all' and per_page 1: the number of the newest pull
\* request of the head, whatever its state
findPullRequestForBranch(b) == IF Len(prs[b]) > 0 THEN Len(prs[b]) ELSE NoPr

FindTask(kind) ==
    [AnalyzeTask(NoBranch) EXCEPT !.op = "find", !.pc = "list"]
        @@ [kind |-> kind, todo |-> <<>>, results |-> {}]

\* the filter of the loop body: lines 80 and 101
Keeps(kind, a) ==
    /\ a.returned = "analysis"
    /\ a.analysis.isMerged
    /\ IF kind = "pr" THEN a.analysis.hasAssociatedPr ELSE ~a.analysis.hasAssociatedPr

\* the loop goes on with the next branch, a being the finished analyzeBranch
FindNext(a) ==
    LET rest == Tail(a.todo)
    IN [a EXCEPT !.pc = IF rest = <<>> THEN "done" ELSE "default",
                 !.todo = rest,
                 !.branch = IF rest = <<>> THEN NoBranch ELSE Head(rest),
                 !.results = IF Keeps(a.kind, a) THEN @ \cup {a.branch} ELSE @,
                 !.returned = "", !.analysis = NoAnalysis, !.branchSha = NoSha,
                 !.defaultBranch = NoBranch]

\* entry and await listBranches; its error leaves the function
FindStart(t, kind) ==
    /\ Inactive(t)
    /\ \E fail \in BOOLEAN :
         LET tk == Call(FindTask(kind), "listBranches")
             branches == listBranches
         IN task' = [task EXCEPT ![t] =
                IF fail THEN [tk EXCEPT !.pc = "done", !.failed = "listBranches"]
                ELSE IF branches = <<>> THEN [tk EXCEPT !.pc = "done"]
                ELSE [tk EXCEPT !.pc = "default", !.todo = branches,
                                !.branch = Head(branches)]]
    /\ UNCHANGED <<config, refs, merged, defaultBranch, pendingDeletions,
                   slackMessages, dmRecords, responses, effects>>
    /\ UNCHANGED staleVars

findManuallyMergedBranches(t) == FindStart(t, "manual")
findPrMergedBranches(t) == FindStart(t, "pr")

\* analyzeBranch of the loop body up to its first await, getDefaultBranch
FindDefault(t) ==
    /\ task[t].op = "find" /\ task[t].pc = "default"
    /\ \E fail \in BOOLEAN :
         LET b == task[t].branch
             tk == Call(task[t], "getDefaultBranch")
         IN task' = [task EXCEPT ![t] =
                IF isProtectedBranch(b, config) \/ isExcludedBranch(b, config)
                THEN FindNext([task[t] EXCEPT !.returned = "null"])
                ELSE IF fail \/ b = defaultBranch
                     THEN FindNext([tk EXCEPT !.returned = "null"])
                     ELSE [tk EXCEPT !.pc = "gather", !.defaultBranch = defaultBranch]]
    /\ UNCHANGED <<config, refs, merged, defaultBranch, pendingDeletions,
                   slackMessages, dmRecords, responses, effects>>
    /\ UNCHANGED staleVars

\* analyzeBranch's Promise.all, then the filter and the push
GatherResult(tk0, failMerged, failPr, failCommits, failSha) ==
    LET tk == Call(Call(Call(Call(tk0, "isBranchMerged"),
                   "findPullRequestForBranch"), "getBranchCommits"), "getBranchSha")
    IN IF failPr
       THEN FindNext([tk EXCEPT !.returned = "null"])
       ELSE FindNext(analysisOf(tk, isBranchMerged(tk.branch, failMerged),
                                findPullRequestForBranch(tk.branch),
                                getBranchCommits(tk.branch, failCommits),
                                getBranchSha(tk.branch, failSha)))

FindGather(t) ==
    /\ task[t].op = "find" /\ task[t].pc = "gather"
    /\ \E failMerged, failPr, failCommits, failSha \in BOOLEAN :
         task' = [task EXCEPT ![t] =
                     GatherResult(task[t], failMerged, failPr, failCommits, failSha)]
    /\ UNCHANGED <<config, refs, merged, defaultBranch, pendingDeletions,
                   slackMessages, dmRecords, responses, effects>>
    /\ UNCHANGED staleVars

\* GitHub: the newest pull request of b, still open, is merged
MergePr(b) ==
    /\ Observed
    /\ refs[b] # NoRef /\ Len(prs[b]) > 0 /\ Head(prs[b]) = "open"
    /\ prs' = [prs EXCEPT ![b] = <<"merged">> \o Tail(@)]
    /\ merged' = [merged EXCEPT ![b] = TRUE]
    /\ UNCHANGED <<config, refs, defaultBranch, pendingDeletions, slackMessages,
                   dmRecords, task, responses, effects, now, stale, lastRun>>

\* GitHub: the newest pull request of b, still open, is closed unmerged
ClosePr(b) ==
    /\ Observed
    /\ Len(prs[b]) > 0 /\ Head(prs[b]) = "open"
    /\ prs' = [prs EXCEPT ![b] = <<"closed">> \o Tail(@)]
    /\ UNCHANGED <<config, refs, merged, defaultBranch, pendingDeletions,
                   slackMessages, dmRecords, task, responses, effects, now, stale,
                   lastRun>>

InitFind ==
    /\ config = DefaultConfig
    /\ InitDeletion
    /\ now = 1
    /\ prs \in {f \in [Branches -> PullHistories] :
                    \A b \in Branches \ PullBranches : f[b] = <<>>}
    /\ stale = IdleStale
    /\ lastRun = [n \in PrNumbers |-> NeverRun]

NextFind ==
    \/ \E t \in Tasks : findManuallyMergedBranches(t)
    \/ \E t \in Tasks : findPrMergedBranches(t)
    \/ \E t \in Tasks : FindDefault(t)
    \/ \E t \in Tasks : FindGather(t)
    \/ \E t \in Tasks : Return(t)
    \/ \E b \in Branches : MergeBranch(b)
    \/ \E b \in Branches : RemoveBranch(b)
    \/ \E b \in Branches : MergePr(b)
    \/ \E b \in Branches : ClosePr(b)

SpecFind == InitFind /\ [][NextFind]_vars

\* ========================================================================
\* Properties
\* ========================================================================
Range(f) == {f[i] : i \in DOMAIN f}
Before(calls, a, b) ==
    \A j \in 1..Len(calls) : calls[j] = b => \E i \in 1..(j - 1) : calls[i] = a

\* C1: in every deletion path deleteBranch is called only after isSafeToDelete
\* ran in that same operation and returned safe=true; after safe=false the
\* operation never calls deleteBranch.
C1_DeleteOnlyAfterSafe ==
    \A t \in Tasks :
        LET tk == task[t] IN
        /\ ("deleteBranch" \in Range(tk.calls) \/ tk.pc \in {"delete", "clear"})
              => /\ tk.op \in {"cleanup", "respond", "slack"}
                 /\ tk.safety = Safe
        /\ (tk.safety # NotRun /\ ~tk.safety.safe)
              => "deleteBranch" \notin Range(tk.calls) /\ tk.pc = "done"

C1_Witness ==
    \E t \in Tasks :
        /\ task[t].op = "slack" /\ task[t].pc = "done"
        /\ "deleteBranch" \in Range(task[t].calls)
        /\ task[t].result.action = "slack_deleted"

\* C2: two handleDeletionResponse calls in succession with the same token
\* give exactly one side effect in total, and the second returns failure
\* "Request already processed".
C2_AtMostOnce ==
    \A t \in Tasks, k \in Tokens :
        (/\ task[t].pc = "done" /\ task[t].op = "respond" /\ task[t].token = k
         /\ responses[k].count = 2
         /\ ~responses[k].first.thrown /\ ~task[t].result.thrown)
        => /\ task[t].result.error = AlreadyProcessed
           /\ ~task[t].result.success
           /\ Len(effects[k]) = 1


\* C3: isSafeToDelete checks in the order protected, exists, default, merged,
\* expectedSha; it returns the reason of the first failing check, makes no
\* collaborator call of a later check (none at all for a pattern-protected
\* branch), and returns safe=true only when no check fails.
SafetyCalls(tk) == SelectSeq(tk.calls, LAMBDA c : c # "deleteBranch")
ProtectedByDefaultPatterns(b) ==
    \/ b = Main
    \/ (Len(b) >= 4 /\ SubSeq(b, 1, 4) = <<"r", "e", "l", "/">>)

C3_Order ==
    \A t \in Tasks :
        LET tk == task[t]
            returned == tk.safety # NotRun
            reason == tk.safety.reason
            calls == SafetyCalls(tk)
            order == <<"branchExists", "getDefaultBranch", "isBranchMerged",
                       "getBranchSha">>
        IN
        /\ tk.op \in {"cleanup", "respond", "slack"} =>
              /\ Len(calls) <= 4 /\ calls = SubSeq(order, 1, Len(calls))
              /\ ProtectedByDefaultPatterns(tk.branch) =>
                    /\ calls = <<>> /\ tk.pc \in {"idle", "done"}
                    /\ returned => tk.safety = Unsafe("Branch is protected")
        /\ returned =>
              /\ reason = "Branch is protected" =>
                    calls = <<>> /\ ProtectedByDefaultPatterns(tk.branch)
              /\ reason = "Branch no longer exists" => Len(calls) = 1
              /\ reason = "Cannot delete default branch" =>
                    Len(calls) = 2 /\ tk.branch = defaultBranch
              /\ reason = "Branch is not fully merged" =>
                    Len(calls) = 3 /\ tk.branch # defaultBranch
              /\ reason = "Branch has new commits since last check" =>
                    Len(calls) = 4 /\ tk.expectedSha \in Shas
              /\ tk.safety.safe =>
                    /\ reason = ""
                    /\ ~ProtectedByDefaultPatterns(tk.branch)
                    /\ tk.branch # defaultBranch
                    /\ Len(calls) = IF tk.expectedSha \in Shas THEN 4 ELSE 3

C3_SafeStep ==
    \A t \in Tasks :
        (task[t].safety = NotRun /\ task'[t].safety # NotRun
            /\ task'[t].op \in {"cleanup", "respond", "slack"}) =>
        LET b == task'[t].branch IN
        task'[t].safety.safe =>
            /\ refs[b] # NoRef
            /\ IF task'[t].expectedSha \in Shas
               THEN refs[b] = task'[t].expectedSha
               ELSE merged[b]

C3_OrderAndResult == []C3_Order /\ [][C3_SafeStep]_vars

C3_Witness ==
    \E t \in Tasks :
        /\ task[t].pc = "done"
        /\ task[t].safety = Unsafe("Branch has new commits since last check")
        /\ task[t].calls = <<"branchExists", "getDefaultBranch", "isBranchMerged",
                             "getBranchSha">>

\* C5: when an approved handleDeletionResponse passes the safety check and
\* deleteBranch throws, the call returns a failed result carrying the error
\* string and the token is consumed: every later call with that token returns
\* "Request already processed" and does not call deleteBranch again.
C5_ConsumedAfterDeleteError ==
    \A t \in Tasks, k \in Tokens :
        (/\ task[t].pc = "done" /\ task[t].op = "respond" /\ task[t].token = k
         /\ responses[k].first = Result(FALSE, "branch_deletion", DeleteError)
         /\ responses[k].count >= 2)
        => /\ task[t].result = Result(FALSE, "deletion_response", AlreadyProcessed)
           /\ "deleteBranch" \notin Range(task[t].calls)

\* C9: an approved response on a pending request whose branch the classifier
\* (run without expectedSha) reports unsafe marks the request rejected, returns
\* failure with the classifier's reason, and does not call deleteBranch.
C9_UnsafeApprovalRejected ==
    \A t \in Tasks :
        LET tk == task[t] IN
        (tk.op = "respond" /\ tk.approved /\ tk.safety # NotRun /\ ~tk.safety.safe)
        => /\ tk.pc = "done"
           /\ pendingDeletions[tk.token].status = "rejected"
           /\ tk.result = Result(FALSE, "branch_deletion", tk.safety.reason)
           /\ tk.safety.reason \in {"Branch is protected", "Branch no longer exists",
                                    "Cannot delete default branch",
                                    "Branch is not fully merged"}
           /\ tk.expectedSha = NoSha
           /\ Range(tk.calls) \cap {"deleteBranch", "getBranchSha"} = {}

C9_Witness ==
    \E t \in Tasks :
        /\ task[t].op = "respond" /\ task[t].approved /\ task[t].pc = "done"
        /\ task[t].safety = Unsafe("Branch is not fully merged")
        /\ pendingDeletions[task[t].token].status = "rejected"

\* C10: a response with approved=false on a pending request marks it rejected,
\* makes no source-control call and returns success with deletion_rejected.
C10_RejectStep ==
    \A t \in Tasks, k \in Tokens :
        (/\ task[t].pc = "idle" /\ task'[t].op = "respond"
         /\ task'[t].token = k /\ ~task'[t].approved
         /\ k \in DOMAIN pendingDeletions
         /\ pendingDeletions[k].status = "pending")
        => /\ task'[t].pc = "done"
           /\ task'[t].result = Result(TRUE, "deletion_rejected", "")
           /\ task'[t].calls = <<>> /\ task'[t].safety = NotRun
           /\ pendingDeletions'[k].status = "rejected"
           /\ refs' = refs /\ merged' = merged

C10_RejectNoSourceControl == [][C10_RejectStep]_vars

C10_Witness ==
    \E t \in Tasks :
        /\ task[t].op = "respond" /\ ~task[t].approved /\ task[t].pc = "done"
        /\ task[t].result.action = "deletion_rejected"
        /\ pendingDeletions[task[t].token].status = "rejected"


\* C4: without an excluded label processPullRequest picks exactly one outcome
\* from the age in whole days and the two markers: close iff age >= closeDays
\* and warning marker present and no closing marker; otherwise warn iff
\* age >= warningDays and no warning marker; otherwise nothing.  Warning and
\* close never both happen in one invocation.
C4_Outcome ==
    LET age == stale.daysSinceActivity
        w == stale.hasWarningComment
        c == stale.hasClosingComment
        closes == age >= config.closeDays /\ w /\ ~c
        warns == ~closes /\ age >= config.warningDays /\ ~w
    IN
    /\ stale.decision # "" =>
          /\ stale.labels \cap config.excludeLabels = {}
          /\ (stale.decision = "close") <=> closes
          /\ (stale.decision = "warn") <=> warns
          /\ (stale.decision = "none") <=> (~closes /\ ~warns)
    /\ (stale.pc \in {"closeComment", "close"} \/ "closePullRequest" \in Range(stale.calls)
            \/ CLOSING_COMMENT_MARKER \in stale.posted)
          => stale.decision = "close" /\ WARNING_COMMENT_MARKER \notin stale.posted
    /\ (stale.pc = "warnComment" \/ WARNING_COMMENT_MARKER \in stale.posted)
          => /\ stale.decision = "warn"
             /\ "closePullRequest" \notin Range(stale.calls)
             /\ CLOSING_COMMENT_MARKER \notin stale.posted
    /\ (stale.pc = "done" /\ stale.decision = "none") =>
          stale.result = Null /\ stale.posted = {}

\* the age is the whole number of days since the effective last activity
C4_AgeStep ==
    (stale.pc = "activity" /\ stale'.pc = "comments") =>
        LET pr == prs[stale.pr]
            times == {pr.comments[i].at : i \in 1..Len(pr.comments)}
                        \cup {pr.reviewAt, pr.commitAt}
            known == {d \in times : d > Epoch}
            effective == IF known = {} THEN stale.updatedAt
                         ELSE CHOOSE d \in known : \A e \in known : e <= d
            age == stale'.daysSinceActivity
        IN  /\ age * TicksPerDay <= now - effective
            /\ now - effective < (age + 1) * TicksPerDay

C4_ExactlyOneOutcome == []C4_Outcome /\ [][C4_AgeStep]_vars

C4_Witness ==
    /\ stale.pc = "done" /\ stale.decision = "close"
    /\ stale.result = Result(TRUE, "stale_close", "")
    /\ stale.daysSinceActivity >= 2

\* C6: a second processPullRequest on a pull request left as the first call
\* left it produces no action: no comment is posted and no close is attempted.
NoAction(st) ==
    /\ "createComment" \notin Range(st.calls)
    /\ "closePullRequest" \notin Range(st.calls)
Successive(n) ==
    /\ stale.pc = "done" /\ stale.pr = n
    /\ lastRun[n].seen /\ lastRun[n].quiet

MarkerCount(comments, marker) ==
    Cardinality({i \in 1..Len(comments) : marker \in comments[i].markers})

C7_ExcludedLabelNoAction ==
    (stale.pc # "idle" /\ stale.labels \cap config.excludeLabels # {})
    => /\ stale.pc = "done"
       /\ stale.result = Null
       /\ stale.calls = <<>>
       /\ stale.posted = {}

C7_Witness ==
    /\ stale.pc = "done" /\ "pinned" \in stale.labels
    /\ stale.result = Null
    /\ HasMarker(prs[stale.pr].comments, WARNING_COMMENT_MARKER)
    /\ now >= 2 * TicksPerDay + 1

\* C8: on closing, the closing-marker comment is posted before closePullRequest
\* is called, closePullRequest is not called when posting fails, and a failure
\* of either step is returned as a failed stale_close result with the error.
C8_CommentThenClose ==
    /\ "closePullRequest" \in Range(stale.calls) =>
          /\ Before(stale.calls, "createComment", "closePullRequest")
          /\ CLOSING_COMMENT_MARKER \in stale.posted
          /\ HasMarker(prs[stale.pr].comments, CLOSING_COMMENT_MARKER)
    /\ stale.pc = "close" =>
          /\ CLOSING_COMMENT_MARKER \in stale.posted
          /\ HasMarker(prs[stale.pr].comments, CLOSING_COMMENT_MARKER)
    /\ (stale.decision = "close" /\ stale.failed = "createComment") =>
          /\ "closePullRequest" \notin Range(stale.calls)
          /\ stale.pc = "done"
          /\ stale.result = Result(FALSE, "stale_close", CommentError)
    /\ stale.failed = "closePullRequest" =>
          /\ stale.pc = "done"
          /\ stale.result = Result(FALSE, "stale_close", CloseError)
    /\ (stale.pc = "done" /\ stale.decision = "close" /\ stale.failed = "") =>
          /\ stale.result = Result(TRUE, "stale_close", "")
          /\ ~prs[stale.pr].open

C8_Witness ==
    /\ stale.pc = "done" /\ stale.failed = "closePullRequest"
    /\ stale.calls = <<"getPullRequestActivity", "listComments", "createComment",
                       "closePullRequest">>

\* C11: handleDeletionResponse with a token that is not in the map returns
\* failure "Request not found or expired", calls neither isSafeToDelete nor
\* deleteBranch, and leaves every stored PendingDeletion unchanged.
C11_UnknownStep ==
    \A t \in Tasks, k \in Tokens :
        (/\ task[t].pc = "idle" /\ task'[t].op = "respond" /\ task'[t].token = k
         /\ k \notin DOMAIN pendingDeletions)
        => /\ task'[t].pc = "done"
           /\ task'[t].result = Result(FALSE, "deletion_response",
                                        "Request not found or expired")
           /\ task'[t].calls = <<>> /\ task'[t].safety = NotRun
           /\ pendingDeletions' = pendingDeletions
           /\ refs' = refs

WasSent(branch, contributor) ==
    \E r \in dmRecords : r.key = getDmKey(Owner, Repo, branch, contributor)

C12_Step ==
    \A m \in slackMessages' \ slackMessages : ~WasSent(m.branch, m.to)

C12_NoDuplicateNotification == [][C12_Step]_vars

\* details.contributors of the failure result of requestDeletionPermission:
\* the contributors argument as received
ReportedContributors(tk) == Range(tk.contributors)

BotIdentities == {"dependabot[bot]"}

Unmapped(contributors) ==
    {c \in Range(contributors) : userMapping[c] = NoRef}

\* C13: requestDeletionPermission returns success=true iff at least one
\* notification was sent in the call; when none is sent, the identities the
\* failure reports are the contributors without a chat destination (bot
\* identities aside).
C13_SuccessIffSent ==
    \A t \in Tasks :
        LET tk == task[t] IN
        (tk.op = "request" /\ tk.pc = "done") =>
            /\ tk.result.success <=> tk.sent > 0
            /\ tk.sent = 0 =>
                  ReportedContributors(tk) \ BotIdentities
                      = Unmapped(tk.contributors) \ BotIdentities

\* C14: bot-suffixed identities are removed first: they get no notification
\* and do not appear in the contributors of the result or of the recorded
\* PendingDeletion.
C14_BotsFiltered ==
    /\ \A m \in slackMessages : m.to \notin BotIdentities
    /\ \A k \in DOMAIN pendingDeletions :
          Range(pendingDeletions[k].contributors) \cap BotIdentities = {}

\* C15: when every remaining contributor is skipped as already notified, the
\* call returns success=true with messagesSent = 0 (and skippedDuplicates the
\* number skipped).
C15_Step ==
    \A t \in Tasks :
        (/\ task[t].op = "request" /\ task'[t].pc = "done" /\ task[t].pc # "done"
         /\ \A c \in Range(task[t].contributors) \ BotIdentities :
                WasSent(task[t].branch, c))
        => /\ task'[t].result.success
           /\ task'[t].sent = 0
           /\ slackMessages' = slackMessages

C15_AllSkippedSucceeds == [][C15_Step]_vars

\* C18: whenever the bot has deleted a branch (Slack approve action,
\* handleDeletionResponse, cleanupMergedPrBranch), the deduplication records of
\* that branch are gone when the operation returns.
Deleted(tk) ==
    /\ tk.pc = "done"
    /\ "deleteBranch" \in Range(tk.calls)
    /\ tk.result.success
    /\ tk.result.action \in {"branch_cleanup", "branch_deletion", "slack_deleted"}

C18_RecordsClearedAfterDelete ==
    \A t \in Tasks :
        Deleted(task[t]) =>
            \A c \in Contributors : ~WasSent(task[t].branch, c)

\* C19: the value of the buttons sendBranchDeletionRequest emits decodes in
\* the interactions route to the branch of the request that produced it.
C19_ButtonRoundTrip ==
    \A m \in slackMessages :
        /\ decodePayload(m.buttons.branch_delete_approve) = m.branch
        /\ decodePayload(m.buttons.branch_delete_reject) = m.branch

\* C16: none of the four store operations throws; on a store error wasDmSent
\* returns false and the other three change nothing.  Under a failing store
\* requestDeletionPermission still calls the send for every contributor of its
\* list, and a safe verdict of isSafeToDelete is what the repository state
\* says, whatever the store holds.
C16_StoreStep ==
    \A t \in Tasks :
        (task[t].pc = "idle" /\ task'[t].op \in StoreOps) =>
            /\ task'[t].pc = "done"
            /\ ~task'[t].result.thrown
            /\ task'[t].result.error # "" =>
                  /\ dmRecords' = dmRecords
                  /\ ~task'[t].result.success
            /\ task'[t].op = "wasDmSent" => dmRecords' = dmRecords

C16_Handlers ==
    \A t \in Tasks :
        LET tk == task[t] IN
        /\ (tk.op = "request" /\ tk.pc = "done") =>
              /\ tk.idx = Len(tk.contributors) + 1
              /\ tk.calls = [i \in 1..Len(tk.contributors) |->
                                "sendBranchDeletionRequest"]
        /\ (tk.op = "cleanup" /\ tk.safety = Safe) =>
              /\ refs[tk.branch] # NoRef /\ merged[tk.branch]
              /\ tk.branch # defaultBranch
              /\ Truthy(tk.expectedSha) => refs[tk.branch] = tk.expectedSha

C16_StoreFailsOpen == [][C16_StoreStep]_vars /\ []C16_Handlers

C16_Witness ==
    \E t \in Tasks :
        /\ task[t].op = "wasDmSent" /\ task[t].pc = "done"
        /\ task[t].result.error = "no_url"
        /\ ~task[t].result.success
        /\ \E r \in dmRecords :
              r.key = getDmKey(Owner, Repo, task[t].branch, task[t].contributors[1])

\* C17: after a successful markDmSent the record of the key is there until
\* clearDmRecord for that key, clearBranchDmRecords for that branch, or the
\* expiry 7 days after the mark removes it; then it is absent until the next
\* markDmSent of the key.  wasDmSent reports whether it is there.
HasRecord(records, k) ==
    \E r \in records : r.key = getDmKey(Owner, Repo, k[1], k[2])

StoreCalled(t, op, branch) ==
    /\ task[t].pc = "idle" /\ task'[t].pc = "done"
    /\ task'[t].op = op /\ task'[t].branch = branch

C17_KeyStep(k) ==
    \A t \in Tasks :
        LET marked == /\ StoreCalled(t, "markDmSent", k[1])
                      /\ task'[t].contributors = <<k[2]>>
            cleared == /\ StoreCalled(t, "clearDmRecord", k[1])
                       /\ task'[t].contributors = <<k[2]>>
            branchCleared == StoreCalled(t, "clearBranchDmRecords", k[1])
            expired == \E r \in dmRecords :
                          /\ r.key = getDmKey(Owner, Repo, k[1], k[2])
                          /\ r.expiresAt <= now'
            ok == task'[t].result.error = ""
        IN
        /\ (marked /\ ok) =>
              [key |-> getDmKey(Owner, Repo, k[1], k[2]),
               expiresAt |-> now + 7 * TicksPerDay] \in dmRecords'
        /\ ((cleared \/ branchCleared) /\ ok) => ~HasRecord(dmRecords', k)
        /\ expired => ~HasRecord(dmRecords', k)
        /\ (HasRecord(dmRecords, k) /\ ~cleared /\ ~branchCleared /\ ~expired)
              => HasRecord(dmRecords', k)
        /\ (~HasRecord(dmRecords, k) /\ HasRecord(dmRecords', k)) => marked
        /\ (StoreCalled(t, "wasDmSent", k[1]) /\ task'[t].contributors = <<k[2]>>
              /\ ok)
              => (task'[t].result.success <=> HasRecord(dmRecords, k))

C17_RecordLifecycle == [][\A k \in StoreKeys : C17_KeyStep(k)]_vars

\* C20: isProtectedBranch / isExcludedBranch are true iff the name equals a
\* pattern without '*', or matches a pattern with '*' in which each '*' stands
\* for any (possibly empty) run of characters and every other character stands
\* for itself, the whole name being matched; an empty list gives false.
RECURSIVE WildcardMatch(_, _)
WildcardMatch(p, s) ==
    IF p = <<>> THEN s = <<>>
    ELSE IF Head(p) = "*"
         THEN \E k \in 0..Len(s) : WildcardMatch(Tail(p), SubSeq(s, k + 1, Len(s)))
         ELSE s # <<>> /\ Head(p) = Head(s) /\ WildcardMatch(Tail(p), Tail(s))

Matches(B, P) ==
    \E i \in 1..Len(P) :
        IF \E j \in 1..Len(P[i]) : P[i][j] = "*"
        THEN WildcardMatch(P[i], B)
        ELSE B = P[i]

C20_PatternSemantics ==
    \A t \in Tasks :
        LET tk == task[t] IN
        /\ (tk.pc = "done" /\ tk.op = "isProtectedBranch") =>
              (tk.result.success <=> Matches(tk.branch, config.protectedPatterns))
        /\ (tk.pc = "done" /\ tk.op = "isExcludedBranch") =>
              (tk.result.success <=> Matches(tk.branch, config.excludePatterns))

\* C22: every handler operation turns a failing collaborator call, one made
\* during the safety check included, into a failed ActionResult and never
\* lets the exception reach its caller.
C22_NoExceptionEscapes ==
    \A t \in Tasks :
        (task[t].pc = "done" /\ task[t].op \in {"cleanup", "respond", "request"})
            => ~task[t].result.thrown

\* C23: when no comment, review or commit timestamp is obtainable for a pull
\* request, processPullRequest computes an age that is at or past both
\* warningDays and closeDays.
C23_Step ==
    (/\ stale.pc = "activity" /\ stale'.pc = "comments"
     /\ prs[stale.pr].comments = <<>>
     /\ prs[stale.pr].reviewAt = Epoch /\ prs[stale.pr].commitAt = Epoch)
    => /\ stale'.daysSinceActivity >= config.warningDays
       /\ stale'.daysSinceActivity >= config.closeDays

C23_NoActivityIsInfiniteAge == [][C23_Step]_vars

\* C24: the warning comment announces max(1, closeDays - age) days until the
\* close, age being the whole days since the last activity; the number is
\* never zero or negative.
C24_Step ==
    (stale.pc = "warnComment" /\ stale'.pc = "done" /\ stale'.result.success)
    => LET n == stale.pr
           age == stale.daysSinceActivity
           left == config.closeDays - age
           posted == prs'[n].comments[Len(prs'[n].comments)]
       IN  /\ Len(prs'[n].comments) = Len(prs[n].comments) + 1
           /\ WARNING_COMMENT_MARKER \in posted.markers
           /\ posted.days >= 1
           /\ posted.days = IF left >= 1 THEN left ELSE 1

C24_RemainingDaysClamped == [][C24_Step]_vars

C24_Witness ==
    /\ stale.pc = "done" /\ stale.result = Result(TRUE, "stale_warning", "")
    /\ stale.daysSinceActivity > config.closeDays
    /\ LET cs == prs[stale.pr].comments IN
          /\ cs # <<>>
          /\ WARNING_COMMENT_MARKER \in cs[Len(cs)].markers
          /\ cs[Len(cs)].days = 1

\* C26: after a requestDeletionPermission call in which no notification was
\* sent to anyone, the map holds no PendingDeletion for that call.
C26_NoPendingWithoutNotification ==
    \A t \in Tasks :
        (task[t].op = "request" /\ task[t].pc = "done" /\ task[t].sent = 0)
            => task[t].token \notin DOMAIN pendingDeletions

\* C28: with dryRun, cleanupMergedPrBranch never calls deleteBranch; it runs
\* isSafeToDelete, returns the safety failure for an unsafe branch and
\* success "branch_cleanup_dry_run" for a safe one.
C28_DryRunNeverDeletes ==
    \A t \in Tasks :
        LET tk == task[t] IN
        (tk.op = "cleanup" /\ tk.dryRun) =>
            /\ tk.pc # "delete"
            /\ "deleteBranch" \notin Range(tk.calls)
            /\ (tk.pc = "done" /\ ~tk.result.thrown) =>
                  /\ tk.safety # NotRun
                  /\ tk.result = IF tk.safety.safe
                                 THEN Result(TRUE, "branch_cleanup_dry_run", "")
                                 ELSE Result(FALSE, "branch_cleanup", tk.safety.reason)

C28_Witness ==
    \E t \in Tasks :
        /\ task[t].op = "cleanup" /\ task[t].dryRun /\ task[t].pc = "done"
        /\ task[t].safety = Safe
        /\ task[t].result.action = "branch_cleanup_dry_run"
        /\ refs[task[t].branch] # NoRef

\* C21: when a repository scan has obtained the list of open pull requests
\* and returned, every pull request of that list has been processed, even
\* when one of them failed
C21_ScanContinuesAfterFailure ==
    \A t \in Tasks :
        (task[t].op = "processRepository" /\ task[t].pc = "done" /\ task[t].listed)
            => task[t].idx = Len(task[t].list) + 1

C27_EmptyOverrideKeepsBase ==
    \A t \in Tasks :
        (task[t].pc = "done" /\ task[t].op \in {"loadConfig", "loadRemoteConfig"}
            /\ task[t].parsed) =>
            LET o == task[t].overrides
                base == task[t].defaults
                SeqField(f) == IF Has(o, f) /\ o[f] # <<>> THEN o[f] ELSE base[f]
                SetField(f) == IF Has(o, f) /\ o[f] # {} THEN o[f] ELSE base[f]
                NumField(f) == IF Has(o, f) THEN o[f] ELSE base[f]
            IN /\ config.protectedPatterns =
                      IF Has(o, "protectedPatterns") /\ o.protectedPatterns # <<>>
                      THEN o.protectedPatterns
                      ELSE IF Has(o, "protectedBranches") /\ o.protectedBranches # <<>>
                           THEN o.protectedBranches
                           ELSE base.protectedPatterns
               /\ config.excludePatterns = SeqField("excludePatterns")
               /\ config.excludeLabels = SetField("excludeLabels")
               /\ config.warningDays = NumField("warningDays")
               /\ config.closeDays = NumField("closeDays")

\* C29: a finished pull_request.closed handler has invoked the cleanup of the
\* head ref with the head sha exactly when the pull request was merged and
\* its head repository is not a fork; a skipped event touches nothing, and a
\* cleanup that returned a failed result lets the handler return
C29_CleanupIffMergedNotFork ==
    \A t \in Tasks :
        (task[t].op \in {"webhook", "cleanup"} /\ task[t].handler # "running") =>
            LET tk == task[t]
                e == tk.event
                invoked == tk.op = "cleanup"
            IN /\ invoked <=> (e.merged /\ e.headRepo # "fork")
               /\ invoked => (tk.branch = e.ref /\ tk.expectedSha = e.sha)
               /\ ~invoked => tk.calls = <<>>
               /\ (invoked /\ ~tk.result.thrown) => tk.handler = "returned"

DeleteCalls(k) == Cardinality({i \in 1..Len(effects[k]) : effects[k][i] = "delete"})

\* C30: when two approvals of the same stored token were in flight together
\* and both have returned, deleteBranch was called at most once for the
\* token and one of the two returned "Request already processed"
C30_InterleavedAtMostOnce ==
    \A k \in Tokens :
        (/\ k \in DOMAIN pendingDeletions
         /\ \A t \in DOMAIN task :
                /\ task[t].op = "respond" /\ task[t].pc = "done"
                /\ task[t].token = k /\ task[t].approved)
        => /\ DeleteCalls(k) <= 1
           /\ \E t \in DOMAIN task : task[t].result.error = AlreadyProcessed

\* C31: a request whose status is 'rejected' stays rejected: no step calls
\* deleteBranch for its token and no step changes its status
C31_Step ==
    \A k \in DOMAIN pendingDeletions :
        pendingDeletions[k].status = "rejected" =>
            /\ pendingDeletions'[k].status = "rejected"
            /\ DeleteCalls(k)' = DeleteCalls(k)
C31_RejectedStaysRejected == [][C31_Step]_vars

\* C32: whenever cleanupMergedPrBranch's deleteBranch removes a branch, the
\* branch's head at that moment equals the expectedSha of the call and the
\* branch is fully merged
C32_Step ==
    \A t \in Tasks :
        LET b == task[t].branch IN
        (/\ task[t].op = "cleanup" /\ task[t].pc = "delete"
         /\ task'[t].pc = "done"
         /\ refs[b] # NoRef /\ refs'[b] = NoRef)
        => (refs[b] = task[t].expectedSha /\ merged[b])
C32_DeletesOnlyExpectedHead == [][C32_Step]_vars

\* C33: a stored request is never removed; its status is pending, approved
\* or rejected and changes only from pending, in a step of a
\* handleDeletionResponse call for its token: to approved exactly when that
\* step's deleteBranch removed the branch; getPendingDeletions lists the
\* pending requests
C33_Step ==
    \A k \in DOMAIN pendingDeletions :
        LET old == pendingDeletions[k]
            b == old.branchName
            responding == \E t \in DOMAIN task :
                             /\ task'[t].op = "respond" /\ task'[t].token = k
                             /\ task'[t] # task[t]
            deleted == \E t \in DOMAIN task :
                          /\ task[t].op = "respond" /\ task[t].token = k
                          /\ task[t].pc = "delete" /\ task'[t].pc = "done"
                          /\ refs[b] # NoRef /\ refs'[b] = NoRef
        IN /\ k \in DOMAIN pendingDeletions'
           /\ pendingDeletions'[k].status \in {"pending", "approved", "rejected"}
           /\ old.status # "pending" => pendingDeletions'[k] = old
           /\ pendingDeletions'[k].status # old.status => responding
           /\ deleted => pendingDeletions'[k].status = "approved"
           /\ (old.status = "pending" /\ pendingDeletions'[k].status = "approved")
                  => deleted
           /\ \A r \in getPendingDeletions' : r.status = "pending"
C33_StatusLifecycle == [][C33_Step]_vars

\* C34: a finished isSafeToDelete that made a call which errored did not
\* return safe: an erroring branchExists gives "Branch no longer exists", an
\* erroring isBranchMerged "Branch is not fully merged", an erroring
\* getBranchSha "Branch has new commits since last check", and an erroring
\* getDefaultBranch leaves it by an exception
C34_FailedCheckNeverSafe ==
    \A t \in Tasks :
        (task[t].op = "isSafeToDelete" /\ task[t].pc = "done") =>
            LET tk == task[t]
                Errored(c) == c \in tk.outage /\ c \in Range(tk.calls)
            IN /\ tk.returned \in {"safe", "unsafe", "thrown"}
               /\ (\E c \in SafetyApiCalls : Errored(c)) => tk.returned # "safe"
               /\ Errored("branchExists") =>
                      (tk.returned = "unsafe" /\ tk.reason = "Branch no longer exists")
               /\ Errored("getDefaultBranch") => tk.returned = "thrown"
               /\ Errored("isBranchMerged") =>
                      (tk.returned = "unsafe" /\ tk.reason = "Branch is not fully merged")
               /\ Errored("getBranchSha") =>
                      /\ tk.returned = "unsafe"
                      /\ tk.reason = "Branch has new commits since last check"

\* the merge comparison of an existing, merged branch errored
C34_Witness ==
    \E t \in Tasks :
        /\ task[t].op = "isSafeToDelete" /\ task[t].pc = "done"
        /\ "isBranchMerged" \in task[t].outage
        /\ "isBranchMerged" \in Range(task[t].calls)
        /\ merged[task[t].branch]
        /\ task[t].returned = "unsafe"

\* the step calls closePullRequest
ClosesNow ==
    /\ Len(stale'.calls) = Len(stale.calls) + 1
    /\ stale'.calls[Len(stale'.calls)] = "closePullRequest"

\* C35: closePullRequest is called only in an invocation that found a warning
\* marker among the comments it listed, a warning that the invocation did not
\* post itself; an invocation that finds the pull request past closeDays
\* without a warning marker goes on to warn
C35_Step ==
    /\ ClosesNow =>
          /\ stale.hasWarningComment
          /\ HasMarker(prs[stale.pr].comments, WARNING_COMMENT_MARKER)
          /\ WARNING_COMMENT_MARKER \notin stale.posted
    /\ (/\ stale.pc = "comments" /\ stale'.pc # "comments" /\ stale'.failed = ""
        /\ stale.daysSinceActivity >= config.closeDays
        /\ ~HasMarker(prs[stale.pr].comments, WARNING_COMMENT_MARKER))
       => stale'.pc = "warnComment"
C36_CloseRetried ==
    \A n \in PrNumbers :
        [](( /\ prs[n].open
             /\ HasMarker(prs[n].comments, WARNING_COMMENT_MARKER)
             /\ HasMarker(prs[n].comments, CLOSING_COMMENT_MARKER)
             /\ getDaysSince(getPullRequestActivity(prs[n])) >= config.closeDays
             /\ ~hasExcludedLabel(prs[n].labels, config))
           => <>(~prs[n].open))

\* the bot's warning on pull request n (there is at most one)
WarningOf(n) ==
    LET cs == prs[n].comments
        i == CHOOSE j \in 1..Len(cs) : WARNING_COMMENT_MARKER \in cs[j].markers
    IN [idx |-> i, at |-> cs[i].at, days |-> cs[i].days]

\* nobody but the bot has touched pull request n since its warning
QuietSinceWarning(n) ==
    LET cs == prs[n].comments
        w == WarningOf(n)
    IN /\ \A j \in (w.idx + 1)..Len(cs) : cs[j].user = "bot"
       /\ prs[n].commitAt < w.at
       /\ prs[n].reviewAt < w.at

\* C37: an invocation that lists the comments of an open pull request at
\* least N days after its warning announced N remaining days, with nobody but
\* the bot active since the warning, goes on to close it
C37_Step ==
    LET n == stale.pr IN
    (/\ stale.pc = "comments" /\ stale'.pc # "comments" /\ stale'.failed = ""
     /\ ~stale.ticked
     /\ prs[n].open
     /\ HasMarker(prs[n].comments, WARNING_COMMENT_MARKER)
     /\ ~HasMarker(prs[n].comments, CLOSING_COMMENT_MARKER)
     /\ QuietSinceWarning(n)
     /\ getDaysSince(WarningOf(n).at) >= WarningOf(n).days)
    => stale'.pc = "closeComment"
C37_ClosedAfterAnnouncedDays == [][C37_Step]_vars

\* the latest thing anybody but the bot did on pull request n
LastHumanActivity(n) ==
    LET cs == prs[n].comments
        humanAts == {cs[j].at : j \in {i \in 1..Len(cs) : cs[i].user = "human"}}
        dates == humanAts \cup {prs[n].commitAt, prs[n].reviewAt}
    IN CHOOSE d \in dates : \A e \in dates : e <= d

\* C38: whenever closePullRequest is called, the pull request carries a
\* warning posted after its latest human activity
C38_Step ==
    ClosesNow =>
        LET n == stale.pr
            cs == prs[n].comments
        IN \E i \in 1..Len(cs) :
              /\ WARNING_COMMENT_MARKER \in cs[i].markers
              /\ cs[i].at >= LastHumanActivity(n)
              /\ \A j \in (i + 1)..Len(cs) : cs[j].user = "bot"
C38_WarnedAgainBeforeClose == [][C38_Step]_vars

MergedViaPr(b) == \E i \in 1..Len(prs[b]) : prs[b][i] = "merged"

\* C39: a branch that findPrMergedBranches puts into its result was merged
\* through a pull request; a fully merged branch none of whose pull requests
\* was merged is put into the result of findManuallyMergedBranches when the
\* reads of its analysis succeed; the repository states in which the two
\* functions return a branch are disjoint
C39_Step ==
    \A t \in Tasks :
        (task[t].op = "find" /\ task[t].pc = "gather" /\ task'[t] # task[t]) =>
            LET b == task[t].branch
                added == b \in task'[t].results
                allRead == task'[t] = GatherResult(task[t], FALSE, FALSE, FALSE, FALSE)
            IN /\ (task[t].kind = "pr" /\ added) => MergedViaPr(b)
               /\ (/\ task[t].kind = "manual" /\ allRead
                   /\ refs[b] # NoRef /\ merged[b] /\ ~MergedViaPr(b)) => added
               /\ (task[t].kind = "manual" /\ added) => ~MergedViaPr(b)
C39_PrMergedOnlyViaPr == [][C39_Step]_vars

\* C40: a successful clearBranchDmRecords of a branch removes the records of
\* that branch and keeps the record of every key of another branch, also of
\* a branch whose name extends the cleared name by a '/' segment; the keys
\* of distinct (branch, contributor) pairs differ
C40_Step ==
    \A t \in Tasks, b \in StoreBranches :
        (StoreCalled(t, "clearBranchDmRecords", b) /\ task'[t].result.error = "") =>
            \A k \in StoreKeys :
                IF k[1] = b
                THEN ~HasRecord(dmRecords', k)
                ELSE HasRecord(dmRecords', k) = HasRecord(dmRecords, k)
C40_DistinctKeys ==
    \A k, l \in StoreKeys :
        k # l => getDmKey(Owner, Repo, k[1], k[2]) # getDmKey(Owner, Repo, l[1], l[2])
C40_ClearsExactlyTheBranch == [][C40_DistinctKeys /\ C40_Step]_vars

====
